---------------------------- MODULE Spec2Model ----------------------------
(***************************************************************************)
(* Model of the message priority engine: the in-memory Store (lib/store),  *)
(* the priority calculator (lib/priority) and the four ingestion routes    *)
(* (app/api/messages/{email,slack,whatsapp,linkedin}/route.ts) plus        *)
(* POST /api/users.                                                        *)
(*                                                                         *)
(* Strings are TLA+ strings; Date values are integers, the milliseconds    *)
(* since the epoch that Date.getTime() returns, and NaN stands for the     *)
(* time value of an Invalid Date.  A missing (undefined) request field is  *)
(* the empty string, which the routes' falsiness tests (!body.x) treat in  *)
(* the same way.                                                           *)
(***************************************************************************)
EXTENDS Integers, Sequences, FiniteSets, TLC

VARIABLES
    users,                              \* Store.users: id -> User
    contacts,                           \* Store.contacts: id -> Contact
    conversations,                      \* Store.conversations: id -> Conversation
    messages,                           \* Store.messages: id -> Message
    messagesByExternalId,               \* index: externalId -> message id
    contactsByUserAndEmail,             \* index: "userId:email" -> contact id
    conversationsByUserAndExternalId,   \* index: "userId:source:externalId" -> conversation id
    nextUuid,                           \* number of uuidv4() calls made so far, plus one
    now,                                \* the wall clock read by new Date()
    last,                               \* the most recent HTTP call: request, response, events emitted
    listeners,                          \* EventEmitter.listeners, a Set: its members in insertion order
    streams,                            \* the listeners' closures: stream number -> its variables
    calls                               \* ingestion calls in flight: call number -> its progress

vars == << users, contacts, conversations, messages, messagesByExternalId,
           contactsByUserAndEmail, conversationsByUserAndExternalId,
           nextUuid, now, last, listeners, streams, calls >>

\* the store's maps and the uuid counter
storeVars == << users, contacts, conversations, messages, messagesByExternalId,
                contactsByUserAndEmail, conversationsByUserAndExternalId, nextUuid >>

-----------------------------------------------------------------------------
(* Bounds of the model *)

\* new messages that the ingestion routes may add to the seeded store
MaxNewMessages == 2
\* clock ticks after construction
MaxTicks == 1
\* listeners subscribed in all, streams and plain ones
MaxStreams == 2

\* the HTTP calls that are in flight together
MaxCalls == 3

\* the weeks that pass between two HTTP calls
MaxWeeks == 1

-----------------------------------------------------------------------------
(* Time *)

MS_PER_HOUR == 3600000
MS_PER_DAY == 86400000
INACTIVITY_THRESHOLD_DAYS == 7
NaN == -1

\* the instant at which the Store is constructed: 1970-01-11T00:00:00.000Z
ConstructedAt == 864000000
\* how far one clock tick moves the clock
TickMs == MS_PER_HOUR

\* new Date(isoString).getTime(): the ISO-8601 strings the requests use,
\* anything else is an Invalid Date
DateParse(s) ==
    CASE s = "1970-01-03T00:00:00.000Z" -> 172800000
      [] s = "1970-01-10T22:00:00.000Z" -> 856800000
      [] s = "1970-01-11T00:00:00.000Z" -> 864000000
      [] s = "1970-01-11T00:30:00.000Z" -> 865800000
      [] OTHER -> NaN

\* const hoursAgo = (hours) => new Date(now.getTime() - hours * 60 * 60 * 1000),
\* the argument given in half hours (the seed uses 0.5, 1.5, 2.5)
hoursAgo(halfHours) == ConstructedAt - halfHours * (MS_PER_HOUR \div 2)

-----------------------------------------------------------------------------
(* Strings *)

UpperCaseLetters == "ABCDEFGHIJKLMNOPQRSTUVWXYZ"
LowerCaseLetters == "abcdefghijklmnopqrstuvwxyz"

LowerChar(c) ==
    IF \E i \in 1..26 : SubSeq(UpperCaseLetters, i, i) = c
    THEN LET i == CHOOSE j \in 1..26 : SubSeq(UpperCaseLetters, j, j) = c
         IN  SubSeq(LowerCaseLetters, i, i)
    ELSE c

\* the string with every character mapped by LowerChar, halving the string
\* to keep the recursion shallow
RECURSIVE LowerString(_)
LowerString(s) ==
    IF Len(s) = 0 THEN ""
    ELSE IF Len(s) = 1 THEN LowerChar(s)
    ELSE LowerString(SubSeq(s, 1, Len(s) \div 2))
         \o LowerString(SubSeq(s, Len(s) \div 2 + 1, Len(s)))

\* String.prototype.includes
includes(haystack, needle) ==
    \E i \in 1..(Len(haystack) - Len(needle) + 1) :
        SubSeq(haystack, i, i + Len(needle) - 1) = needle

-----------------------------------------------------------------------------
(* lib/priority *)

\* metadata is a Record<string, unknown>: a function from the keys present
Truthy(metadata, key) == key \in DOMAIN metadata /\ metadata[key] = TRUE

Max(a, b) == IF a >= b THEN a ELSE b
Min(a, b) == IF a <= b THEN a ELSE b

\* Object.entries(URGENCY_KEYWORDS)
URGENCY_KEYWORDS ==
    << <<"urgent", 20>>, <<"asap", 20>>, <<"emergency", 20>>, <<"critical", 18>>,
       <<"deadline", 15>>, <<"immediately", 18>>, <<"important", 10>>,
       <<"priority", 8>>, <<"needed", 7>>, <<"soon", 6>>, <<"time-sensitive", 10>>,
       <<"when you can", 3>>, <<"quick question", 5>>, <<"no rush", 0>> >>

RESPONSE_EXPECTATION(source) ==
    CASE source = "email" -> 5
      [] source = "slack" -> 12
      [] source = "whatsapp" -> 15
      [] source = "linkedin" -> 3

\* the loop of calculateUrgencyScore adding the scores up
RECURSIVE UrgencyLoopSumming(_, _, _)
UrgencyLoopSumming(lowerContent, i, maxScore) ==
    IF i > Len(URGENCY_KEYWORDS) THEN maxScore
    ELSE UrgencyLoopSumming(lowerContent, i + 1,
                            IF includes(lowerContent, URGENCY_KEYWORDS[i][1])
                            THEN maxScore + URGENCY_KEYWORDS[i][2]
                            ELSE maxScore)

RECURSIVE UrgencyLoop(_, _, _)
UrgencyLoop(lowerContent, i, maxScore) ==
    IF i > Len(URGENCY_KEYWORDS) THEN maxScore
    ELSE UrgencyLoop(lowerContent, i + 1,
                     IF includes(lowerContent, URGENCY_KEYWORDS[i][1])
                     THEN Max(maxScore, URGENCY_KEYWORDS[i][2])
                     ELSE maxScore)


calculateRecencyScore(lastMessageAt, clock) ==
    IF lastMessageAt = NaN THEN 0      \* every comparison with NaN is false
    ELSE LET msSince == clock - lastMessageAt
         IN  IF msSince < 1 * MS_PER_HOUR THEN 20
             ELSE IF msSince < 4 * MS_PER_HOUR THEN 15
             ELSE IF msSince < 24 * MS_PER_HOUR THEN 10
             ELSE IF msSince < 72 * MS_PER_HOUR THEN 5
             ELSE 0

\* isInactive with the 7-day boundary left out
isInactiveAfterBoundary(lastMessageAt, clock) ==
    IF lastMessageAt = NaN THEN FALSE
    ELSE clock - lastMessageAt > INACTIVITY_THRESHOLD_DAYS * MS_PER_DAY

isInactive(lastMessageAt, clock) ==
    IF lastMessageAt = NaN THEN FALSE  \* NaN >= 7 is false
    ELSE clock - lastMessageAt >= INACTIVITY_THRESHOLD_DAYS * MS_PER_DAY

calculateProviderBoost(source, metadata) ==
    LET boost ==
          CASE source = "email" ->
                 (IF "importance" \in DOMAIN metadata /\ metadata["importance"] = "high"
                  THEN 5 ELSE 0)
               + (IF "importance" \in DOMAIN metadata /\ metadata["importance"] = "low"
                  THEN -3 ELSE 0)
            [] source = "slack" ->
                 (IF Truthy(metadata, "isDirectMessage") THEN 10 ELSE 0)
               + (IF "mentions" \in DOMAIN metadata /\ Len(metadata["mentions"]) > 0
                  THEN 5 ELSE 0)
                 \* an empty mentions array is truthy
               + (IF ~Truthy(metadata, "isDirectMessage") /\ "mentions" \notin DOMAIN metadata
                  THEN -5 ELSE 0)
            [] source = "whatsapp" ->
                 (IF Truthy(metadata, "isForwarded") THEN -5 ELSE 0)
               + (IF Truthy(metadata, "isGroupChat") THEN -10 ELSE 0)
            [] source = "linkedin" ->
                 (IF "connectionDegree" \in DOMAIN metadata /\ metadata["connectionDegree"] = 1
                  THEN 5 ELSE 0)
               + (IF Truthy(metadata, "isInMail") THEN -5 ELSE 0)
    IN  Max(-10, Min(10, boost))

\* the weighted sum with the weights of the contact priority and of the
\* urgency exchanged
WeightedSumUrgencyFirst(c, u, r, e, b) ==
    4 * c + 8 * ((u * 100) \div 20) + 4 * ((r * 100) \div 20)
    + (3 * (e * 100)) \div 15 + ((b + 10) * 100) \div 20

\* The weighted sum of the normalized signals, in twentieths:
\*   contactPriority * 0.4 + (u/20)*100 * 0.2 + (r/20)*100 * 0.2
\*   + (e/15)*100 * 0.15 + ((b+10)/20)*100 * 0.05
WeightedSum20(c, u, r, e, b) ==
    8 * c + 4 * ((u * 100) \div 20) + 4 * ((r * 100) \div 20)
    + (3 * (e * 100)) \div 15 + ((b + 10) * 100) \div 20

\* The signals for which the sum, computed in IEEE-754 doubles in the order
\* the code adds it, falls just below the exact value x.5 (x.4999999999999)
DoubleFallsShort(c, u, r, e, b) ==
    << c, u, r, e, b >> \in { << 0, 0, 0, 5, -8 >>, << 0, 0, 0, 5, -4 >>,
                             << 0, 0, 0, 5, 0 >>, << 5, 0, 0, 5, -8 >> }

\* Math.round: to the nearest integer, halves upwards
MathRound20(x20, fallsShort) ==
    IF fallsShort /\ x20 % 20 = 10 THEN x20 \div 20 ELSE (x20 + 10) \div 20

\* calculatePriority without the weights and the clamp: the rounded plain
\* sum of the normalized signals
calculatePriorityUnweighted(c, u, r, e, b) ==
    c + (u * 100) \div 20 + (r * 100) \div 20 + (e * 100) \div 15
    + ((b + 10) * 100) \div 20

calculatePriorityOfSignals(c, u, r, e, b) ==
    Max(0, Min(100, MathRound20(WeightedSum20(c, u, r, e, b),
                                DoubleFallsShort(c, u, r, e, b))))


-----------------------------------------------------------------------------
(* The requests the clients send *)

DemoUser == "user-demo"
SecondUser == "user-demo:email"
GhostUser == "user-ghost"

\* externalMessageId values: one that the seed already stored, and new ones
NewExternalMessageIds == { "new-msg-" \o ToString(i) : i \in 1..MaxNewMessages }
ExternalMessageIds == {"msg-001"} \cup NewExternalMessageIds

OldDate == "1970-01-03T00:00:00.000Z"       \* 8 days before construction
RecentDate == "1970-01-10T22:00:00.000Z"    \* 2 hours before construction

NoMetadata == << >>                         \* metadata absent, or {}

\* A JSON number sent where the request types say string.  It is written
\* as a token so that it can stand in a field that otherwise holds strings;
\* IsString tells it from them.
NumberContent == "<the JSON number 42>"

IsString(value) == value # NumberContent

EmailBody(u, m, c, e, n, t) ==
    [ userId |-> u, externalMessageId |-> m, externalConversationId |-> c,
      from |-> [ email |-> e, name |-> n ],
      subject |-> "Re: Q4 Board Presentation",
      body |-> "This is URGENT, please reply asap",
      receivedAt |-> t, metadata |-> [ importance |-> "high" ] ]

EmailRequests ==
    { EmailBody(DemoUser, m, c, "sarah.chen@acme.com", "Sarah Chen", "") :
        m \in ExternalMessageIds, c \in {"thread-001", "email:thread-001"} }
    \cup { EmailBody(DemoUser, m, c, "Sarah.Chen@ACME.com", "Sarah Chen", OldDate) :
             m \in ExternalMessageIds, c \in {"thread-001", "email:thread-001"} }
    \cup { EmailBody(SecondUser, m, "thread-001", "Sarah.Chen@ACME.com", "Sarah Chen", "") :
             m \in ExternalMessageIds }
    \cup { EmailBody(DemoUser, m, "thread-009", "email:sarah.chen@acme.com", "Sarah Chen", "") :
             m \in NewExternalMessageIds }
    \cup { [ EmailBody(DemoUser, m, "thread-001", "sarah.chen@acme.com", "Sarah Chen", "")
                EXCEPT !.body = NumberContent ] : m \in NewExternalMessageIds }
    \cup { EmailBody("", "msg-001", "thread-001", "sarah.chen@acme.com", "Sarah Chen", ""),
           EmailBody(GhostUser, "msg-001", "thread-001", "", "Sarah Chen", ""),
           EmailBody(GhostUser, "msg-001", "thread-001", "sarah.chen@acme.com", "Sarah Chen", "") }

SlackBody(u, m, c, e, n, t, md) ==
    [ userId |-> u, externalMessageId |-> m, externalConversationId |-> c,
      from |-> [ email |-> e, name |-> n, slackUserId |-> "U024BE7LH" ],
      content |-> "Quick question about the deploy",
      receivedAt |-> t, metadata |-> md ]

SlackRequests ==
    { SlackBody(DemoUser, m, "thread-001", "mike.johnson@team.com", "Mike J", RecentDate,
                [ isDirectMessage |-> TRUE ]) : m \in ExternalMessageIds }
    \cup { SlackBody(DemoUser, m, "dm-mike-001", "Sarah.Chen@ACME.com", "Mike J", RecentDate,
                     [ isDirectMessage |-> TRUE ]) : m \in ExternalMessageIds }
    \cup { SlackBody(DemoUser, "", "thread-001", "mike.johnson@team.com", "Mike J", "", NoMetadata),
           SlackBody(GhostUser, "new-msg-1", "thread-001", "mike.johnson@team.com", "Mike J", "",
                     NoMetadata) }

WhatsAppBody(u, m, c, e, n, ph, md) ==
    [ userId |-> u, externalMessageId |-> m, externalConversationId |-> c,
      from |-> [ email |-> e, name |-> n, phone |-> ph ],
      content |-> "Call me when you can, no rush",
      receivedAt |-> "", metadata |-> md ]

WhatsAppRequests ==
    { WhatsAppBody(DemoUser, m, "thread-001", "", "Alex", "+15550100",
                   [ isGroupChat |-> TRUE, isForwarded |-> TRUE ]) :
        m \in ExternalMessageIds }
    \cup { WhatsAppBody(DemoUser, m, "wa-alex-001", "Alex.Rivera@client.io", "Alex", "+15550100",
                        NoMetadata) : m \in ExternalMessageIds }
    \cup { WhatsAppBody(DemoUser, "msg-001", "", "", "Alex", "+15550100", NoMetadata),
           WhatsAppBody(DemoUser, "msg-001", "wa-alex-001", "alex.rivera@client.io", "Alex", "",
                        NoMetadata) }

LinkedInBody(u, m, c, e, n, md) ==
    [ userId |-> u, externalMessageId |-> m, externalConversationId |-> c,
      from |-> [ email |-> e, name |-> n, linkedinUrl |-> "https://linkedin.com/in/jwu" ],
      content |-> "Are you open to a new role?",
      receivedAt |-> "", metadata |-> md ]

LinkedInRequests ==
    { LinkedInBody(DemoUser, m, "li-jennifer-001", "Sarah.Chen@ACME.com", "Jen Wu",
                   [ connectionDegree |-> 1 ]) : m \in ExternalMessageIds }
    \cup { LinkedInBody(DemoUser, m, "thread-001", "recruiter@bigtech.com", "Jen Wu",
                        [ isInMail |-> TRUE ]) : m \in ExternalMessageIds }
    \cup { LinkedInBody(DemoUser, "msg-001", "li-jennifer-001", "recruiter@bigtech.com", "",
                        NoMetadata),
           LinkedInBody(GhostUser, "msg-001", "li-jennifer-001", "recruiter@bigtech.com",
                        "Jen Wu", NoMetadata) }

\* POST /api/users bodies
UserRequests ==
    { [ id |-> SecondUser, email |-> "Second@Kinso.dev", name |-> "Second User" ],
      [ id |-> SecondUser, email |-> "", name |-> "Second User" ] }

-----------------------------------------------------------------------------
(* toLowerCase and the urgency scan over the strings that occur, computed  *)
(* once                                                                    *)

EmailStrings ==
    { r.from.email : r \in EmailRequests \cup SlackRequests \cup LinkedInRequests }
    \cup { r.from.email : r \in WhatsAppRequests }
    \cup { r.from.phone \o "@whatsapp.placeholder" : r \in WhatsAppRequests }
    \cup { r.email : r \in UserRequests }

LowerTable == [ s \in EmailStrings |-> LowerString(s) ]

\* String.prototype.toLowerCase
toLowerCase(s) == IF s \in DOMAIN LowerTable THEN LowerTable[s] ELSE LowerString(s)

SeedContents ==
    { "Hi, I need you to review the Q4 board presentation ASAP. The board meeting is tomorrow and this is critical. Please prioritize this immediately.",
      "Just following up - this is urgent. Can you confirm you received this?",
      "Hey! Quick question about the API integration. Are we still using v2 or have we migrated to v3?",
      "Also, the client is asking about the timeline. Can you give me an update when you get a chance?",
      "Hi! Just wanted to check on the project status. We have a deadline coming up and need to make sure everything is on track.",
      "Also, can we schedule a call for this week? Its important we align on next steps.",
      "Hi! I came across your profile and I think you would be a great fit for a Senior Engineer role at BigTech. Would you be interested in learning more?",
      "Hi team, here are the notes from our weekly sync. Please review and let me know if I missed anything. No rush on this.",
      "Has anyone seen the new TypeScript 5.4 features? Looks like they added some cool stuff for type inference.",
      "@demo-user what do you think about migrating our codebase?" }

\* the contents of the two scored scenarios
ScenarioContents == { "This is urgent, please answer asap", "See you at lunch" }

ContentStrings ==
    { c \in SeedContents \cup ScenarioContents \cup { r.body : r \in EmailRequests }
               \cup { r.content : r \in SlackRequests \cup WhatsAppRequests
                                         \cup LinkedInRequests } : IsString(c) }

UrgencyScan(content) == Min(UrgencyLoop(LowerString(content), 1, 0), 20)

UrgencyTable == [ c \in ContentStrings |-> UrgencyScan(c) ]

calculateUrgencyScore(content) ==
    IF content \in DOMAIN UrgencyTable THEN UrgencyTable[content] ELSE UrgencyScan(content)

calculatePrioritySignals(context, clock) ==
    [ contactPriority |-> context.contactPriority,
      urgencyKeywords |-> calculateUrgencyScore(context.content),
      recency |-> calculateRecencyScore(context.lastMessageAt, clock),
      responseExpectation |-> RESPONSE_EXPECTATION(context.source),
      providerBoost |-> calculateProviderBoost(context.source, context.metadata) ]

\* content.toLowerCase() of a content that is no string is a TypeError,
\* thrown out of calculateUrgencyScore, calculatePrioritySignals and
\* calculatePriority; isInactive is evaluated before it
calculatePriorityThrows(context, clock) ==
    ~isInactive(context.lastMessageAt, clock) /\ ~IsString(context.content)

\* calculatePriority keeping what it returned before: the priority the
\* last call was answered with counts when it is above the score
calculatePriorityRemembering(context, clock) ==
    IF isInactive(context.lastMessageAt, clock) THEN 0
    ELSE LET signals == calculatePrioritySignals(context, clock)
         IN  Max(last.response.priority,
                 calculatePriorityOfSignals(signals.contactPriority,
                                            signals.urgencyKeywords, signals.recency,
                                            signals.responseExpectation,
                                            signals.providerBoost))

\* calculatePriority(context), with the clock that new Date() reads
calculatePriority(context, clock) ==
    IF isInactive(context.lastMessageAt, clock) THEN 0
    ELSE LET signals == calculatePrioritySignals(context, clock)
         IN  calculatePriorityOfSignals(signals.contactPriority, signals.urgencyKeywords,
                                        signals.recency, signals.responseExpectation,
                                        signals.providerBoost)

-----------------------------------------------------------------------------
(* lib/store: class Store.  Its methods are operators on a record of the   *)
(* store's fields; emitted is the sequence of events handed to             *)
(* events.emit during the current call.  An object reference is the id of  *)
(* the object in its primary map.                                          *)

Undefined == "undefined"

\* `const name = value;` followed by the rest of the block, in which the
\* name stands for the value
Bind(value, Rest(_)) == Rest(value)

\* Map.prototype.set
MapSet(map, key, value) ==
    [ k \in DOMAIN map \cup {key} |-> IF k = key THEN value ELSE map[k] ]

\* Map.prototype.get
MapGet(map, key) == IF key \in DOMAIN map THEN map[key] ELSE Undefined

\* the value of the n-th uuidv4() call
UuidOf(n) == "uuid-" \o ToString(n)

\* class EventEmitter.  A listener is the number of the stream whose
\* start() subscribed it; s.listeners is the Set in insertion order and
\* s.streams[n] holds what listener n's closure refers to:
\*   kind            "user" (GET /api/conversations/stream), "conversation"
\*                   (GET /api/conversations/[id]/messages/stream) or
\*                   "plain" (a function subscribed as it is)
\*   userId, conversationId   what the closure filters by
\*   writable        controller.enqueue succeeds
\*   received        the events enqueued on the stream so far
\*   timer           the heartbeat interval is registered
\*   aborted         request.signal has fired
\*   unsubscribed    the function that subscribe returned has been called
\*   failedEvent, failedHeartbeat   an enqueue of that sort has thrown
\* s.delivered logs the listener calls of the current HTTP call.

Range(seq) == { seq[i] : i \in DOMAIN seq }

\* listeners.add(listener): a Set keeps the first insertion
subscribe(s, listener) ==
    IF listener \in Range(s.listeners) THEN s
    ELSE [ s EXCEPT !.listeners = Append(@, listener) ]

\* a function returned by subscribe that deletes nothing
unsubscribeKeeping(s, listener) == s

\* the function subscribe returns: listeners.delete(listener)
unsubscribe(s, listener) ==
    [ s EXCEPT !.listeners = SelectSeq(@, LAMBDA l : l # listener) ]

\* sendEvent: controller.enqueue(encoder.encode(data)), which throws once
\* the stream is closed or cancelled
sendEvent(stream, event) ==
    IF stream.writable
    THEN [ stream |-> [ stream EXCEPT !.received = Append(@, event) ], threw |-> FALSE ]
    ELSE [ stream |-> stream, threw |-> TRUE ]

\* try { sendEvent(event) } catch (error) { console.error(...) }
TrySendEvent(stream, event) ==
    LET sent == sendEvent(stream, event)
    IN  IF sent.threw
        THEN [ stream |-> [ stream EXCEPT !.failedEvent = TRUE ], threw |-> FALSE ]
        ELSE sent

\* the listener of a user stream
UserStreamListener(stream, event) ==
    IF stream.userId # "" /\ event.data.userId # stream.userId
    THEN [ stream |-> stream, threw |-> FALSE ]
    ELSE TrySendEvent(stream, event)

\* the listener of a conversation stream
ConversationStreamListener(stream, event) ==
    IF event.data.conversationId # stream.conversationId
    THEN [ stream |-> stream, threw |-> FALSE ]
    ELSE IF event.type # "message:new" THEN [ stream |-> stream, threw |-> FALSE ]
    ELSE TrySendEvent(stream, event)

\* listener(event)
ListenerCall(stream, event) ==
    CASE stream.kind = "user" -> UserStreamListener(stream, event)
      [] stream.kind = "conversation" -> ConversationStreamListener(stream, event)
      [] stream.kind = "plain" -> sendEvent(stream, event)

\* the forEach of emit that lets a listener's exception end the loop
RECURSIVE EmitLoopUncaught(_, _, _)
EmitLoopUncaught(s, event, i) ==
    IF i > Len(s.listeners) THEN s
    ELSE LET l == s.listeners[i]
             called == ListenerCall(s.streams[l], event)
             after == [ s EXCEPT !.streams[l] = called.stream,
                                 !.delivered = Append(@, [ listener |-> l,
                                                           type |-> event.type,
                                                           threw |-> called.threw ]) ]
         IN  IF called.threw THEN after ELSE EmitLoopUncaught(after, event, i + 1)

\* the forEach of emit from the last listener to the first
RECURSIVE EmitLoopBackwards(_, _, _)
EmitLoopBackwards(s, event, i) ==
    IF i > Len(s.listeners) THEN s
    ELSE LET l == s.listeners[Len(s.listeners) + 1 - i]
             called == ListenerCall(s.streams[l], event)
         IN  EmitLoopBackwards(
                 [ s EXCEPT !.streams[l] = called.stream,
                            !.delivered = Append(@, [ listener |-> l, type |-> event.type,
                                                      threw |-> called.threw ]) ],
                 event, i + 1)

\* this.listeners.forEach((listener) => { try { listener(event) } catch ... }),
\* from the i-th listener on
RECURSIVE EmitLoop(_, _, _)
EmitLoop(s, event, i) ==
    IF i > Len(s.listeners) THEN s
    ELSE LET l == s.listeners[i]
             called == ListenerCall(s.streams[l], event)
         IN  EmitLoop(
                 [ s EXCEPT !.streams[l] = called.stream,
                            !.delivered = Append(@, [ listener |-> l, type |-> event.type,
                                                      threw |-> called.threw ]) ],
                 event, i + 1)

\* emit that puts the event before the events already emitted
emitFirst(s, event) == [ s EXCEPT !.emitted = << event >> \o @ ]

\* EventEmitter.emit; s.emitted logs the events of the current HTTP call
emit(s, event) == [ EmitLoop(s, event, 1) EXCEPT !.emitted = Append(@, event) ]

getUser(s, id) == IF id \in DOMAIN s.users THEN id ELSE Undefined

createUser(s, data, clock) ==
    LET id == IF data.id # "" THEN data.id ELSE UuidOf(s.nextUuid)
        user == [ id |-> id, email |-> toLowerCase(data.email), name |-> data.name,
                  createdAt |-> clock, updatedAt |-> clock ]
    IN  [ store |-> [ s EXCEPT !.users = MapSet(@, id, user),
                               !.nextUuid = IF data.id # "" THEN @ ELSE @ + 1 ],
          ref |-> id ]

\* findContactByUserAndEmail that looks the email up as it was sent
findContactByUserAndEmailAsSent(s, userId, email) ==
    MapGet(s.contactsByUserAndEmail, userId \o ":" \o email)

findContactByUserAndEmail(s, userId, email) ==
    MapGet(s.contactsByUserAndEmail, userId \o ":" \o toLowerCase(email))

\* createContact filing the contact under the email as it was sent
createContactIndexedAsSent(s, data, clock) ==
    LET contact == [ id |-> UuidOf(s.nextUuid), userId |-> data.userId,
                     email |-> toLowerCase(data.email), name |-> data.name,
                     source |-> data.source,
                     priority |-> IF "priority" \in DOMAIN data THEN data.priority ELSE 50,
                     createdAt |-> clock, updatedAt |-> clock ]
    IN  [ store |-> [ s EXCEPT
                        !.contacts = MapSet(@, contact.id, contact),
                        !.contactsByUserAndEmail =
                            MapSet(@, contact.userId \o ":" \o data.email, contact.id),
                        !.nextUuid = @ + 1 ],
          ref |-> contact.id ]

createContact(s, data, clock) ==
    LET contact == [ id |-> UuidOf(s.nextUuid), userId |-> data.userId,
                     email |-> toLowerCase(data.email), name |-> data.name,
                     source |-> data.source,
                     priority |-> IF "priority" \in DOMAIN data THEN data.priority ELSE 50,
                     createdAt |-> clock, updatedAt |-> clock ]
    IN  [ store |-> [ s EXCEPT
                        !.contacts = MapSet(@, contact.id, contact),
                        !.contactsByUserAndEmail =
                            MapSet(@, contact.userId \o ":" \o contact.email, contact.id),
                        !.nextUuid = @ + 1 ],
          ref |-> contact.id ]

\* findOrCreateContact that, on a hit, takes the name and the channel of
\* the call
findOrCreateContactRenaming(s, data, clock) ==
    LET existing == findContactByUserAndEmail(s, data.userId, data.email)
    IN  IF existing # Undefined
        THEN [ store |-> [ s EXCEPT !.contacts[existing] =
                             [ @ EXCEPT !.name = data.name, !.source = data.source ] ],
               ref |-> existing ]
        ELSE createContact(s, data, clock)

findOrCreateContact(s, data, clock) ==
    LET existing == findContactByUserAndEmail(s, data.userId, data.email)
    IN  IF existing # Undefined THEN [ store |-> s, ref |-> existing ]
        ELSE createContact(s, data, clock)

findConversationByUserAndExternalId(s, userId, externalId, source) ==
    MapGet(s.conversationsByUserAndExternalId,
           userId \o ":" \o source \o ":" \o externalId)

createConversation(s, data, clock) ==
    LET conversation == [ id |-> UuidOf(s.nextUuid), externalId |-> data.externalId,
                          userId |-> data.userId, contactId |-> data.contactId,
                          source |-> data.source, title |-> data.title,
                          priority |-> 50, lastMessageAt |-> clock,
                          createdAt |-> clock, updatedAt |-> clock ]
        stored == [ s EXCEPT
                      !.conversations = MapSet(@, conversation.id, conversation),
                      !.conversationsByUserAndExternalId =
                          MapSet(@, conversation.userId \o ":" \o conversation.source
                                      \o ":" \o conversation.externalId, conversation.id),
                      !.nextUuid = @ + 1 ]
    IN  [ store |-> emit(stored, [ type |-> "conversation:new",
                                   data |-> [ conversationId |-> conversation.id,
                                              userId |-> conversation.userId,
                                              priority |-> conversation.priority ] ]),
          ref |-> conversation.id ]

\* findOrCreateConversation that, on a hit, takes the title and the contact
\* of the call
findOrCreateConversationRetitling(s, data, clock) ==
    LET existing == findConversationByUserAndExternalId(s, data.userId, data.externalId,
                                                        data.source)
    IN  IF existing # Undefined
        THEN [ store |-> [ s EXCEPT !.conversations[existing] =
                             [ @ EXCEPT !.title = data.title,
                                        !.contactId = data.contactId ] ],
               conversation |-> existing, isNew |-> FALSE ]
        ELSE LET created == createConversation(s, data, clock)
             IN  [ store |-> created.store, conversation |-> created.ref, isNew |-> TRUE ]

findOrCreateConversation(s, data, clock) ==
    LET existing == findConversationByUserAndExternalId(s, data.userId, data.externalId,
                                                        data.source)
    IN  IF existing # Undefined
        THEN [ store |-> s, conversation |-> existing, isNew |-> FALSE ]
        ELSE LET created == createConversation(s, data, clock)
             IN  [ store |-> created.store, conversation |-> created.ref, isNew |-> TRUE ]

\* updateConversationPriority that omits line 555, the new priority
updateConversationPriorityKeeping(s, conversationId, priority, lastMessageAt, clock) ==
    IF conversationId \notin DOMAIN s.conversations THEN [ store |-> s, ref |-> Undefined ]
    ELSE LET updated == [ s EXCEPT !.conversations[conversationId] =
                            [ @ EXCEPT !.lastMessageAt = lastMessageAt,
                                       !.updatedAt = clock ] ]
             conversation == updated.conversations[conversationId]
         IN  [ store |-> emit(updated, [ type |-> "conversation:updated",
                                         data |-> [ conversationId |-> conversation.id,
                                                    userId |-> conversation.userId,
                                                    priority |-> conversation.priority ] ]),
               ref |-> conversationId ]

\* updateConversationPriority that emits the event before it writes the
\* conversation, so with the priority the conversation had
updateConversationPriorityEmittingFirst(s, conversationId, priority, lastMessageAt, clock) ==
    IF conversationId \notin DOMAIN s.conversations THEN [ store |-> s, ref |-> Undefined ]
    ELSE LET conversation == s.conversations[conversationId]
             emitted == emit(s, [ type |-> "conversation:updated",
                                  data |-> [ conversationId |-> conversation.id,
                                             userId |-> conversation.userId,
                                             priority |-> conversation.priority ] ])
         IN  [ store |-> [ emitted EXCEPT !.conversations[conversationId] =
                             [ @ EXCEPT !.priority = priority,
                                        !.lastMessageAt = lastMessageAt,
                                        !.updatedAt = clock ] ],
               ref |-> conversationId ]

\* updateConversationPriority that also moves the conversation's messages
\* to the date given
updateConversationPriorityRedating(s, conversationId, priority, lastMessageAt, clock) ==
    IF conversationId \notin DOMAIN s.conversations THEN [ store |-> s, ref |-> Undefined ]
    ELSE LET updated == [ s EXCEPT !.conversations[conversationId] =
                            [ @ EXCEPT !.priority = priority,
                                       !.lastMessageAt = lastMessageAt,
                                       !.updatedAt = clock ],
                                   !.messages =
                            [ id \in DOMAIN @ |->
                                IF @[id].conversationId = conversationId
                                THEN [ @[id] EXCEPT !.createdAt = lastMessageAt ]
                                ELSE @[id] ] ]
             conversation == updated.conversations[conversationId]
         IN  [ store |-> emit(updated, [ type |-> "conversation:updated",
                                         data |-> [ conversationId |-> conversation.id,
                                                    userId |-> conversation.userId,
                                                    priority |-> conversation.priority ] ]),
               ref |-> conversationId ]

updateConversationPriority(s, conversationId, priority, lastMessageAt, clock) ==
    IF conversationId \notin DOMAIN s.conversations THEN [ store |-> s, ref |-> Undefined ]
    ELSE LET updated == [ s EXCEPT !.conversations[conversationId] =
                            [ @ EXCEPT !.priority = priority,
                                       !.lastMessageAt = lastMessageAt,
                                       !.updatedAt = clock ] ]
             conversation == updated.conversations[conversationId]
         IN  [ store |-> emit(updated, [ type |-> "conversation:updated",
                                         data |-> [ conversationId |-> conversation.id,
                                                    userId |-> conversation.userId,
                                                    priority |-> conversation.priority ] ]),
               ref |-> conversationId ]

findMessageByExternalId(s, externalId) == MapGet(s.messagesByExternalId, externalId)

\* createMessage that omits line 640, the entry in messagesByExternalId
createMessageUnindexed(s, data, clock) ==
    LET message == [ id |-> UuidOf(s.nextUuid), conversationId |-> data.conversationId,
                     externalId |-> data.externalId, source |-> data.source,
                     content |-> data.content, metadata |-> data.metadata,
                     createdAt |-> data.createdAt, updatedAt |-> clock ]
        stored == [ s EXCEPT !.messages = MapSet(@, message.id, message),
                             !.nextUuid = @ + 1 ]
    IN  [ store |-> IF data.conversationId \in DOMAIN s.conversations
                    THEN emit(stored,
                              [ type |-> "message:new",
                                data |-> [ conversationId |-> data.conversationId,
                                           userId |-> s.conversations[data.conversationId].userId,
                                           messageId |-> message.id ] ])
                    ELSE stored,
          ref |-> message.id ]

\* data.createdAt is always given by the routes
createMessage(s, data, clock) ==
    LET message == [ id |-> UuidOf(s.nextUuid), conversationId |-> data.conversationId,
                     externalId |-> data.externalId, source |-> data.source,
                     content |-> data.content, metadata |-> data.metadata,
                     createdAt |-> data.createdAt, updatedAt |-> clock ]
        stored == [ s EXCEPT
                      !.messages = MapSet(@, message.id, message),
                      !.messagesByExternalId = MapSet(@, message.externalId, message.id),
                      !.nextUuid = @ + 1 ]
    IN  [ store |-> IF data.conversationId \in DOMAIN s.conversations
                    THEN emit(stored,
                              [ type |-> "message:new",
                                data |-> [ conversationId |-> data.conversationId,
                                           userId |-> s.conversations[data.conversationId].userId,
                                           messageId |-> message.id ] ])
                    ELSE stored,
          ref |-> message.id ]

\* the position of an entity in its Map's iteration order: entities enter
\* their map right after their uuid is drawn and are never set again
UuidNumbers == 1..200

InsertionOrder(id) == CHOOSE n \in UuidNumbers : UuidOf(n) = id

MessagesOf(s, conversationId) ==
    { m \in DOMAIN s.messages : s.messages[m].conversationId = conversationId }

\* sort by createdAt descending (a stable sort), then the first element
getLatestMessageForConversation(s, conversationId) ==
    LET ms == MessagesOf(s, conversationId)
    IN  IF ms = {} THEN Undefined
        ELSE CHOOSE m \in ms :
               \A o \in ms \ {m} :
                  \/ s.messages[m].createdAt > s.messages[o].createdAt
                  \/ /\ s.messages[m].createdAt = s.messages[o].createdAt
                     /\ InsertionOrder(m) < InsertionOrder(o)

\* Array.from(map.values()): the values in the order of insertion
ValuesOf(map) ==
    LET inserted == { n \in UuidNumbers : UuidOf(n) \in DOMAIN map }
    IN  [ k \in 1..Cardinality(inserted) |->
            map[UuidOf(CHOOSE n \in inserted :
                         Cardinality({ o \in inserted : o < n }) = k - 1)] ]

\* a comparator that puts priority descending, then createdAt ascending
compareConversationsOldestFirst(a, b) ==
    IF b.priority # a.priority THEN b.priority - a.priority
    ELSE a.createdAt - b.createdAt

\* the comparator of getConversationsForUser: negative when a sorts before b
compareConversations(a, b) ==
    IF b.priority # a.priority THEN b.priority - a.priority
    ELSE b.createdAt - a.createdAt

\* Array.prototype.sort is stable: an element goes after the elements
\* already placed that do not sort after it
RECURSIVE SortConversations(_)
SortConversations(array) ==
    IF array = << >> THEN << >>
    ELSE LET sorted == SortConversations(SubSeq(array, 1, Len(array) - 1))
             x == array[Len(array)]
             before == { i \in DOMAIN sorted : compareConversations(sorted[i], x) <= 0 }
             at == IF before = {} THEN 0
                   ELSE CHOOSE i \in before : \A j \in before : j <= i
         IN  SubSeq(sorted, 1, at) \o << x >> \o SubSeq(sorted, at + 1, Len(sorted))

\* Array.prototype.slice(start, end)
Slice(array, start, end) ==
    LET len == Len(array)
        from == IF start < 0 THEN (IF len + start < 0 THEN 0 ELSE len + start)
                ELSE (IF start > len THEN len ELSE start)
        to == IF end < 0 THEN (IF len + end < 0 THEN 0 ELSE len + end)
              ELSE (IF end > len THEN len ELSE end)
    IN  SubSeq(array, from + 1, to)

\* Store.getConversationsForUser; options is a record that has the fields
\* the caller gives, and a source that is given may be Undefined
getConversationsForUser(s, userId, options) ==
    LET page == IF "page" \in DOMAIN options THEN options.page ELSE 1
        asked == IF "limit" \in DOMAIN options THEN options.limit ELSE 20
        limit == IF asked < 100 THEN asked ELSE 100
        ofUser == SelectSeq(ValuesOf(s.conversations),
                            LAMBDA c : c.userId = userId)
        filtered == IF "source" \in DOMAIN options /\ options.source \notin { Undefined, "" }
                    THEN SelectSeq(ofUser, LAMBDA c : c.source = options.source)
                    ELSE ofUser
        sorted == SortConversations(filtered)
        start == (page - 1) * limit
    IN  [ conversations |-> Slice(sorted, start, start + limit),
          total |-> Len(sorted) ]

\* a comparator that puts the newest message first
compareMessagesNewestFirst(a, b) == b.createdAt - a.createdAt

\* the comparator of getMessagesForConversation: negative when a sorts
\* before b
compareMessages(a, b) == a.createdAt - b.createdAt

\* Array.prototype.sort with compareMessages, a stable sort
RECURSIVE SortMessages(_)
SortMessages(array) ==
    IF array = << >> THEN << >>
    ELSE LET sorted == SortMessages(SubSeq(array, 1, Len(array) - 1))
             x == array[Len(array)]
             before == { i \in DOMAIN sorted : compareMessages(sorted[i], x) <= 0 }
             at == IF before = {} THEN 0
                   ELSE CHOOSE i \in before : \A j \in before : j <= i
         IN  SubSeq(sorted, 1, at) \o << x >> \o SubSeq(sorted, at + 1, Len(sorted))

\* Store.getMessagesForConversation; options is a record that has the
\* fields the caller gives
getMessagesForConversation(s, conversationId, options) ==
    LET page == IF "page" \in DOMAIN options THEN options.page ELSE 1
        asked == IF "limit" \in DOMAIN options THEN options.limit ELSE 50
        limit == IF asked < 100 THEN asked ELSE 100
        sorted == SortMessages(SelectSeq(ValuesOf(s.messages),
                                         LAMBDA m : m.conversationId = conversationId))
        start == (page - 1) * limit
    IN  [ messages |-> Slice(sorted, start, start + limit), total |-> Len(sorted) ]


-----------------------------------------------------------------------------
(* Store.seedData: the demo user, four contacts, six conversations and ten *)
(* messages the constructor creates                                        *)

EmptyStore ==
    [ users |-> << >>, contacts |-> << >>, conversations |-> << >>, messages |-> << >>,
      messagesByExternalId |-> << >>, contactsByUserAndEmail |-> << >>,
      conversationsByUserAndExternalId |-> << >>, nextUuid |-> 1, emitted |-> << >>,
      listeners |-> << >>, streams |-> << >>, delivered |-> << >> ]

SeedContact(s, email, name, source, priority, clock) ==
    LET contact == [ id |-> UuidOf(s.nextUuid), userId |-> DemoUser, email |-> email,
                     name |-> name, source |-> source, priority |-> priority,
                     createdAt |-> clock, updatedAt |-> clock ]
    IN  [ s EXCEPT !.contacts = MapSet(@, contact.id, contact),
                   !.contactsByUserAndEmail =
                       MapSet(@, contact.userId \o ":" \o contact.email, contact.id),
                   !.nextUuid = @ + 1 ]

createSeededConversation(s, data, clock) ==
    LET conversation == [ id |-> UuidOf(s.nextUuid), externalId |-> data.externalId,
                          userId |-> data.userId, contactId |-> data.contactId,
                          source |-> data.source, title |-> data.title,
                          priority |-> 50, lastMessageAt |-> clock,
                          createdAt |-> clock, updatedAt |-> clock ]
    IN  [ s EXCEPT !.conversations = MapSet(@, conversation.id, conversation),
                   !.conversationsByUserAndExternalId =
                       MapSet(@, conversation.userId \o ":" \o conversation.source
                                   \o ":" \o conversation.externalId, conversation.id),
                   !.nextUuid = @ + 1 ]

createSeededMessage(s, data, clock) ==
    LET message == [ id |-> UuidOf(s.nextUuid), conversationId |-> data.conversationId,
                     externalId |-> data.externalId, source |-> data.source,
                     content |-> data.content, metadata |-> data.metadata,
                     createdAt |-> data.createdAt, updatedAt |-> clock ]
    IN  [ s EXCEPT !.messages = MapSet(@, message.id, message),
                   !.messagesByExternalId = MapSet(@, message.externalId, message.id),
                   !.nextUuid = @ + 1 ]

updateConversationPrioritiesFromMessages(s, clock) ==
    [ s EXCEPT !.conversations =
        [ c \in DOMAIN s.conversations |->
            LET conversation == s.conversations[c]
                latestMessage == getLatestMessageForConversation(s, c)
            IN  IF latestMessage # Undefined /\ conversation.contactId \in DOMAIN s.contacts
                THEN [ conversation EXCEPT
                         !.priority = calculatePriority(
                             [ source |-> conversation.source,
                               content |-> s.messages[latestMessage].content,
                               lastMessageAt |-> s.messages[latestMessage].createdAt,
                               contactPriority |-> s.contacts[conversation.contactId].priority,
                               metadata |-> s.messages[latestMessage].metadata ], clock),
                         !.lastMessageAt = s.messages[latestMessage].createdAt,
                         !.updatedAt = clock ]
                ELSE conversation ] ]

\* the conversations and messages of seedData in the order it creates them;
\* contact is the number of the contact, at is the argument of hoursAgo in
\* half hours, and a message belongs to the conversation created before it
SeedScript ==
    << [ kind |-> "conversation", externalId |-> "thread-001", contact |-> 1,
         source |-> "email", title |-> "Q4 Board Presentation - URGENT Review Needed" ],
       [ kind |-> "message", externalId |-> "msg-001", source |-> "email", at |-> 2,
         content |-> "Hi, I need you to review the Q4 board presentation ASAP. The board meeting is tomorrow and this is critical. Please prioritize this immediately.",
         metadata |-> [ importance |-> "high", hasAttachments |-> TRUE ] ],
       [ kind |-> "message", externalId |-> "msg-002", source |-> "email", at |-> 1,
         content |-> "Just following up - this is urgent. Can you confirm you received this?",
         metadata |-> [ importance |-> "high", isReply |-> TRUE ] ],
       [ kind |-> "conversation", externalId |-> "dm-mike-001", contact |-> 2,
         source |-> "slack", title |-> "DM with Mike Johnson" ],
       [ kind |-> "message", externalId |-> "msg-003", source |-> "slack", at |-> 4,
         content |-> "Hey! Quick question about the API integration. Are we still using v2 or have we migrated to v3?",
         metadata |-> [ isDirectMessage |-> TRUE ] ],
       [ kind |-> "message", externalId |-> "msg-004", source |-> "slack", at |-> 3,
         content |-> "Also, the client is asking about the timeline. Can you give me an update when you get a chance?",
         metadata |-> [ isDirectMessage |-> TRUE ] ],
       [ kind |-> "conversation", externalId |-> "wa-alex-001", contact |-> 3,
         source |-> "whatsapp", title |-> "Alex Rivera" ],
       [ kind |-> "message", externalId |-> "msg-005", source |-> "whatsapp", at |-> 6,
         content |-> "Hi! Just wanted to check on the project status. We have a deadline coming up and need to make sure everything is on track.",
         metadata |-> [ messageType |-> "text" ] ],
       [ kind |-> "message", externalId |-> "msg-006", source |-> "whatsapp", at |-> 5,
         content |-> "Also, can we schedule a call for this week? Its important we align on next steps.",
         metadata |-> [ messageType |-> "text" ] ],
       [ kind |-> "conversation", externalId |-> "li-jennifer-001", contact |-> 4,
         source |-> "linkedin", title |-> "Jennifer Wu - BigTech Opportunity" ],
       [ kind |-> "message", externalId |-> "msg-007", source |-> "linkedin", at |-> 48,
         content |-> "Hi! I came across your profile and I think you would be a great fit for a Senior Engineer role at BigTech. Would you be interested in learning more?",
         metadata |-> [ connectionDegree |-> 2, isInMail |-> TRUE,
                        profileHeadline |-> "Tech Recruiter at BigTech" ] ],
       [ kind |-> "conversation", externalId |-> "thread-002", contact |-> 1,
         source |-> "email", title |-> "Weekly Team Sync Notes" ],
       [ kind |-> "message", externalId |-> "msg-008", source |-> "email", at |-> 96,
         content |-> "Hi team, here are the notes from our weekly sync. Please review and let me know if I missed anything. No rush on this.",
         metadata |-> [ importance |-> "normal" ] ],
       [ kind |-> "conversation", externalId |-> "channel-eng-001", contact |-> 2,
         source |-> "slack", title |-> "#engineering" ],
       [ kind |-> "message", externalId |-> "msg-009", source |-> "slack", at |-> 24,
         content |-> "Has anyone seen the new TypeScript 5.4 features? Looks like they added some cool stuff for type inference.",
         metadata |-> [ channelName |-> "engineering", isDirectMessage |-> FALSE ] ],
       [ kind |-> "message", externalId |-> "msg-010", source |-> "slack", at |-> 20,
         content |-> "@demo-user what do you think about migrating our codebase?",
         metadata |-> [ channelName |-> "engineering", isDirectMessage |-> FALSE,
                        mentions |-> << "demo-user" >> ] ] >>

RECURSIVE RunSeedScript(_, _, _, _)
RunSeedScript(s, i, conv, clock) ==
    IF i > Len(SeedScript) THEN s
    ELSE LET step == SeedScript[i]
         IN  IF step.kind = "conversation"
             THEN RunSeedScript(
                    createSeededConversation(s,
                        [ externalId |-> step.externalId, userId |-> DemoUser,
                          contactId |-> UuidOf(step.contact), source |-> step.source,
                          title |-> step.title ], clock),
                    i + 1, UuidOf(s.nextUuid), clock)
             ELSE RunSeedScript(
                    createSeededMessage(s,
                        [ conversationId |-> conv, externalId |-> step.externalId,
                          source |-> step.source, content |-> step.content,
                          metadata |-> step.metadata, createdAt |-> hoursAgo(step.at) ], clock),
                    i + 1, conv, clock)

seedData ==
    LET clock == ConstructedAt
        demoUser == [ id |-> DemoUser, email |-> "demo@kinso.dev", name |-> "Demo User",
                      createdAt |-> clock, updatedAt |-> clock ]
        s0 == [ EmptyStore EXCEPT !.users = MapSet(@, demoUser.id, demoUser) ]
        s1 == SeedContact(s0, "sarah.chen@acme.com", "Sarah Chen (CEO)", "email", 90, clock)
        s2 == SeedContact(s1, "mike.johnson@team.com", "Mike Johnson", "slack", 60, clock)
        s3 == SeedContact(s2, "alex.rivera@client.io", "Alex Rivera", "whatsapp", 75, clock)
        s4 == SeedContact(s3, "recruiter@bigtech.com", "Jennifer Wu", "linkedin", 40, clock)
    IN  updateConversationPrioritiesFromMessages(RunSeedScript(s4, 1, Undefined, clock), clock)


-----------------------------------------------------------------------------
(* The routes.  A handler is an operator from the store, the request body  *)
(* and the clock to the store it leaves and the response it sends.         *)

NoResponse == [ messageId |-> Undefined, conversationId |-> Undefined,
                contactId |-> Undefined, priority |-> -1 ]

ErrorResult(s, status, code) ==
    [ store |-> s, status |-> status, code |-> code, response |-> NoResponse,
      isNew |-> FALSE ]

\* { ...metadata, [key]: value }
Spread(metadata, key, value) ==
    [ k \in DOMAIN metadata \cup {key} |-> IF k = key THEN value ELSE metadata[k] ]

\* body.receivedAt ? new Date(body.receivedAt) : new Date()
MessageDate(receivedAt, clock) == IF receivedAt # "" THEN DateParse(receivedAt) ELSE clock

\* The steps every route runs once the request has passed its checks:
\* find or create the contact and the conversation, create the message,
\* score it, update the conversation, answer 201
IngestSteps(s, source, body, contactEmail, title, content, storedMetadata, clock) ==
    Bind(findOrCreateContact(s, [ userId |-> body.userId, email |-> contactEmail,
                                  name |-> body.from.name, source |-> source ], clock),
    LAMBDA c :
    Bind(findOrCreateConversation(c.store,
             [ userId |-> body.userId, contactId |-> c.ref,
               externalId |-> body.externalConversationId, source |-> source,
               title |-> title ], clock),
    LAMBDA v :
    Bind(MessageDate(body.receivedAt, clock),
    LAMBDA messageDate :
    Bind(createMessage(v.store,
             [ conversationId |-> v.conversation, externalId |-> body.externalMessageId,
               source |-> source, content |-> content, metadata |-> storedMetadata,
               createdAt |-> messageDate ], clock),
    LAMBDA m :
    Bind([ source |-> source, content |-> content, lastMessageAt |-> messageDate,
           contactPriority |-> m.store.contacts[c.ref].priority,
           metadata |-> body.metadata ],
    LAMBDA context :
    IF calculatePriorityThrows(context, clock)
    THEN \* the catch block of the route, entered from calculatePriority
         [ store |-> m.store, status |-> 500, code |-> "INTERNAL_ERROR",
           response |-> NoResponse, isNew |-> v.isNew ]
    ELSE Bind(calculatePriority(context, clock),
         LAMBDA priority :
         Bind(updateConversationPriority(m.store, v.conversation, priority,
                                         messageDate, clock),
         LAMBDA u :
         [ store |-> u.store, status |-> 201, code |-> "CREATED",
           response |-> [ messageId |-> m.ref, conversationId |-> v.conversation,
                          contactId |-> c.ref, priority |-> priority ],
           isNew |-> v.isNew ])))))))

\* the checks made with the dedup check last, after the pipeline has run
CheckedDedupLast(s, body, senderMissing, steps) ==
    IF body.userId = "" \/ body.externalMessageId = "" \/ body.externalConversationId = ""
    THEN ErrorResult(s, 400, "VALIDATION_ERROR")
    ELSE IF senderMissing THEN ErrorResult(s, 400, "VALIDATION_ERROR")
    ELSE IF getUser(s, body.userId) = Undefined THEN ErrorResult(s, 404, "USER_NOT_FOUND")
    ELSE IF findMessageByExternalId(s, body.externalMessageId) # Undefined
    THEN [ steps EXCEPT !.status = 409, !.code = "DUPLICATE_MESSAGE",
                        !.response = NoResponse, !.isNew = FALSE ]
    ELSE steps

\* the checks made with the user lookup first
CheckedUserFirst(s, body, senderMissing, steps) ==
    IF getUser(s, body.userId) = Undefined THEN ErrorResult(s, 404, "USER_NOT_FOUND")
    ELSE IF body.userId = "" \/ body.externalMessageId = "" \/ body.externalConversationId = ""
    THEN ErrorResult(s, 400, "VALIDATION_ERROR")
    ELSE IF senderMissing THEN ErrorResult(s, 400, "VALIDATION_ERROR")
    ELSE IF findMessageByExternalId(s, body.externalMessageId) # Undefined
    THEN ErrorResult(s, 409, "DUPLICATE_MESSAGE")
    ELSE steps

\* The checks every route makes first, with the route's own test of the
\* sender fields
Checked(s, body, senderMissing, steps) ==
    IF body.userId = "" \/ body.externalMessageId = "" \/ body.externalConversationId = ""
    THEN ErrorResult(s, 400, "VALIDATION_ERROR")
    ELSE IF senderMissing THEN ErrorResult(s, 400, "VALIDATION_ERROR")
    ELSE IF getUser(s, body.userId) = Undefined THEN ErrorResult(s, 404, "USER_NOT_FOUND")
    ELSE IF findMessageByExternalId(s, body.externalMessageId) # Undefined
    THEN ErrorResult(s, 409, "DUPLICATE_MESSAGE")
    ELSE steps

EmailPOST(s, body, clock) ==
    Checked(s, body, body.from.email = "" \/ body.from.name = "",
            IngestSteps(s, "email", body, body.from.email,
                        IF body.subject # "" THEN body.subject ELSE "(No Subject)",
                        body.body, body.metadata, clock))

SlackPOST(s, body, clock) ==
    Checked(s, body, body.from.email = "" \/ body.from.name = "",
            IngestSteps(s, "slack", body, body.from.email,
                        IF "channelName" \in DOMAIN body.metadata
                           /\ body.metadata["channelName"] # ""
                        THEN body.metadata["channelName"]
                        ELSE IF Truthy(body.metadata, "isDirectMessage")
                             THEN "DM with " \o body.from.name
                             ELSE "Slack Conversation",
                        body.content,
                        Spread(body.metadata, "slackUserId", body.from.slackUserId), clock))

WhatsAppPOST(s, body, clock) ==
    Checked(s, body, body.from.name = "" \/ body.from.phone = "",
            IngestSteps(s, "whatsapp", body,
                        IF body.from.email # "" THEN body.from.email
                        ELSE body.from.phone \o "@whatsapp.placeholder",
                        IF Truthy(body.metadata, "isGroupChat") THEN "WhatsApp Group"
                        ELSE "WhatsApp with " \o body.from.name,
                        body.content,
                        Spread(body.metadata, "phone", body.from.phone), clock))

LinkedInPOST(s, body, clock) ==
    Checked(s, body, body.from.email = "" \/ body.from.name = "",
            IngestSteps(s, "linkedin", body, body.from.email,
                        IF Truthy(body.metadata, "isInMail")
                        THEN "InMail from " \o body.from.name
                        ELSE "LinkedIn with " \o body.from.name,
                        body.content,
                        Spread(body.metadata, "linkedinUrl", body.from.linkedinUrl), clock))

UsersPOST(s, body, clock) ==
    IF body.email = "" \/ body.name = "" THEN ErrorResult(s, 400, "VALIDATION_ERROR")
    ELSE [ store |-> createUser(s, body, clock).store, status |-> 201, code |-> "CREATED",
           response |-> NoResponse, isNew |-> FALSE ]

\* getPriorityWithInactivityCheck
getPriorityWithInactivityCheck(storedPriority, lastMessageAt, clock) ==
    IF isInactive(lastMessageAt, clock) THEN 0 ELSE storedPriority

\* Store.getMessageCountForConversation
getMessageCountForConversation(s, conversationId) ==
    Cardinality(MessagesOf(s, conversationId))

\* Store.getContact
getContact(s, id) == IF id \in DOMAIN s.contacts THEN id ELSE Undefined

\* parseInt(value, 10) of the query strings the clients send
parseInt(value) ==
    CASE value = "0" -> 0
      [] value = "1" -> 1
      [] value = "2" -> 2
      [] value = "20" -> 20
      [] value = "50" -> 50
      [] value = "200" -> 200

\* searchParams.get(name) || fallback
OrDefault(value, fallback) == IF value = "" THEN fallback ELSE value

\* the query strings of GET /api/conversations; a parameter that is absent
\* is ""
ListQueries ==
    [ userId : { DemoUser, SecondUser, "" }, page : { "", "0", "2" },
      limit : { "", "2", "200" }, source : { "", "email" } ]

\* the item of the response for a conversation
ConversationListItem(s, conversation, clock) ==
    [ id |-> conversation.id, externalId |-> conversation.externalId,
      source |-> conversation.source, title |-> conversation.title,
      priority |-> getPriorityWithInactivityCheck(conversation.priority,
                                                  conversation.lastMessageAt, clock),
      lastMessageAt |-> conversation.lastMessageAt,
      contactId |-> IF getContact(s, conversation.contactId) = Undefined THEN ""
                    ELSE conversation.contactId,
      messageCount |-> getMessageCountForConversation(s, conversation.id),
      createdAt |-> conversation.createdAt, updatedAt |-> conversation.updatedAt ]

\* Date.prototype.toISOString throws a RangeError for an Invalid Date
toISOStringThrows(date) == date = NaN

\* GET /api/conversations
ConversationsGET(s, query, clock) ==
    LET page == Max(1, parseInt(OrDefault(query.page, "1")))
        limit == Min(100, Max(1, parseInt(OrDefault(query.limit, "20"))))
    IN  IF query.userId = ""
        THEN [ status |-> 400, code |-> "VALIDATION_ERROR", data |-> << >>,
               pagination |-> << >> ]
        ELSE IF getUser(s, query.userId) = Undefined
        THEN [ status |-> 404, code |-> "USER_NOT_FOUND", data |-> << >>,
               pagination |-> << >> ]
        ELSE Bind(getConversationsForUser(s, query.userId,
                      [ page |-> page, limit |-> limit,
                        source |-> IF query.source = "" THEN Undefined
                                   ELSE query.source ]),
             LAMBDA found :
             IF \E k \in DOMAIN found.conversations :
                   \/ toISOStringThrows(found.conversations[k].lastMessageAt)
                   \/ toISOStringThrows(found.conversations[k].createdAt)
                   \/ toISOStringThrows(found.conversations[k].updatedAt)
             THEN \* the catch block of the route
                  [ status |-> 500, code |-> "INTERNAL_ERROR", data |-> << >>,
                    pagination |-> << >> ]
             ELSE
             [ status |-> 200, code |-> "OK",
               data |-> [ k \in DOMAIN found.conversations |->
                            ConversationListItem(s, found.conversations[k], clock) ],
               pagination |-> [ page |-> page, limit |-> limit, total |-> found.total,
                                totalPages |-> (found.total + limit - 1) \div limit ] ])


\* Store.getConversation
getConversation(s, id) == IF id \in DOMAIN s.conversations THEN id ELSE Undefined

\* GET /api/conversations/[id]/messages
MessagesGET(s, id, query, clock) ==
    LET page == Max(1, parseInt(OrDefault(query.page, "1")))
        limit == Min(100, Max(1, parseInt(OrDefault(query.limit, "50"))))
    IN  IF getConversation(s, id) = Undefined
        THEN [ status |-> 404, code |-> "CONVERSATION_NOT_FOUND", data |-> << >>,
               pagination |-> << >> ]
        ELSE Bind(getMessagesForConversation(s, id, [ page |-> page, limit |-> limit ]),
             LAMBDA found :
             IF \E k \in DOMAIN found.messages :
                   \/ toISOStringThrows(found.messages[k].createdAt)
                   \/ toISOStringThrows(found.messages[k].updatedAt)
             THEN \* the catch block of the route
                  [ status |-> 500, code |-> "INTERNAL_ERROR", data |-> << >>,
                    pagination |-> << >> ]
             ELSE [ status |-> 200, code |-> "OK",
                    data |-> [ k \in DOMAIN found.messages |->
                                 [ id |-> found.messages[k].id,
                                   source |-> found.messages[k].source,
                                   content |-> found.messages[k].content,
                                   metadata |-> found.messages[k].metadata,
                                   contactId |->
                                       IF getContact(s, s.conversations[id].contactId)
                                             = Undefined
                                       THEN "" ELSE s.conversations[id].contactId,
                                   createdAt |-> found.messages[k].createdAt,
                                   updatedAt |-> found.messages[k].updatedAt ] ],
                    pagination |-> [ page |-> page, limit |-> limit,
                                     total |-> found.total,
                                     totalPages |-> (found.total + limit - 1) \div limit ] ])

-----------------------------------------------------------------------------
(* The stream routes: GET /api/conversations/stream and                    *)
(* GET /api/conversations/[id]/messages/stream, and the callbacks that     *)
(* their start() registers.                                                *)

ConnectionEstablished(conversationId, userId) ==
    [ type |-> "message:new",
      data |-> [ conversationId |-> conversationId, userId |-> userId,
                 messageId |-> "connection-established" ] ]

\* what a listener's closure refers to when it is created
NewStream(kind, userId, conversationId) ==
    [ kind |-> kind, userId |-> userId, conversationId |-> conversationId,
      writable |-> TRUE, received |-> << >>, timer |-> FALSE, aborted |-> FALSE,
      unsubscribed |-> FALSE, failedEvent |-> FALSE, failedHeartbeat |-> FALSE ]

\* start(controller) of stream n: the initial event, the subscription, the
\* abort listeners and the heartbeat interval
StreamStart(s, n, stream, initial) ==
    LET sent == sendEvent(stream, initial).stream
        started == [ sent EXCEPT !.timer = TRUE ]
    IN  subscribe([ s EXCEPT !.streams = MapSet(@, n, started) ], n)

\* GET /api/conversations/stream?userId=
UserStreamGET(s, n, userId) ==
    [ store |-> StreamStart(s, n, NewStream("user", userId, ""),
                            ConnectionEstablished("", userId)),
      status |-> 200, code |-> "STREAM" ]

\* GET /api/conversations/[id]/messages/stream
ConversationStreamGET(s, n, conversationId) ==
    IF conversationId \notin DOMAIN s.conversations
    THEN [ store |-> s, status |-> 404, code |-> "CONVERSATION_NOT_FOUND" ]
    ELSE [ store |-> StreamStart(s, n, NewStream("conversation", "", conversationId),
                                 ConnectionEstablished(conversationId,
                                     s.conversations[conversationId].userId)),
           status |-> 200, code |-> "STREAM" ]

\* store.events.subscribe(listener) of a listener that writes every event
\* to its sink and has no try of its own
PlainSubscribe(s, n) ==
    subscribe([ s EXCEPT !.streams = MapSet(@, n, NewStream("plain", "", "")) ], n)

\* the two 'abort' listeners of stream n: unsubscribe() and
\* controller.close(), then clearInterval(heartbeatInterval)
OnAbort(s, n) ==
    [ unsubscribe(s, n) EXCEPT !.streams[n] =
        [ @ EXCEPT !.aborted = TRUE, !.unsubscribed = TRUE, !.writable = FALSE,
                   !.timer = FALSE ] ]

\* the owner of plain listener n calls the function subscribe returned
PlainUnsubscribe(s, n) ==
    [ unsubscribe(s, n) EXCEPT !.streams[n] = [ @ EXCEPT !.unsubscribed = TRUE ] ]

\* the heartbeat callback of stream n: try { controller.enqueue(heartbeat) }
\* catch { clearInterval(heartbeatInterval) }.  A heartbeat is no event and
\* is not kept in received.
OnHeartbeat(s, n) ==
    IF s.streams[n].writable THEN s
    ELSE [ s EXCEPT !.streams[n] = [ @ EXCEPT !.timer = FALSE, !.failedHeartbeat = TRUE ] ]

-----------------------------------------------------------------------------
(* The state machine *)

\* the store as the handlers find it, no event emitted yet
TheStore ==
    [ users |-> users, contacts |-> contacts, conversations |-> conversations,
      messages |-> messages, messagesByExternalId |-> messagesByExternalId,
      contactsByUserAndEmail |-> contactsByUserAndEmail,
      conversationsByUserAndExternalId |-> conversationsByUserAndExternalId,
      nextUuid |-> nextUuid, emitted |-> << >>,
      listeners |-> listeners, streams |-> streams, delivered |-> << >> ]

NoRequest == << >>

NoCall == [ route |-> "none", request |-> NoRequest, status |-> 0, code |-> "NONE",
            response |-> NoResponse, isNew |-> FALSE, events |-> << >>,
            delivered |-> << >> ]

Init ==
    /\ now = ConstructedAt
    /\ last = NoCall
    /\ users = seedData.users
    /\ contacts = seedData.contacts
    /\ conversations = seedData.conversations
    /\ messages = seedData.messages
    /\ messagesByExternalId = seedData.messagesByExternalId
    /\ contactsByUserAndEmail = seedData.contactsByUserAndEmail
    /\ conversationsByUserAndExternalId = seedData.conversationsByUserAndExternalId
    /\ nextUuid = seedData.nextUuid
    /\ listeners = seedData.listeners
    /\ streams = seedData.streams
    /\ calls = << >>

\* The handler of an HTTP call, run from its last suspension point to its
\* end: the store it leaves, and in last what it answered and emitted; of a
\* call that was answered 201, last keeps the route and the request too.
Completed(route, body, result) ==
    /\ users' = result.store.users
    /\ contacts' = result.store.contacts
    /\ conversations' = result.store.conversations
    /\ messages' = result.store.messages
    /\ messagesByExternalId' = result.store.messagesByExternalId
    /\ contactsByUserAndEmail' = result.store.contactsByUserAndEmail
    /\ conversationsByUserAndExternalId' = result.store.conversationsByUserAndExternalId
    /\ nextUuid' = result.store.nextUuid
    /\ last' = [ route |-> IF result.status = 201 THEN route ELSE "none",
                 request |-> IF result.status = 201 THEN body ELSE NoRequest,
                 status |-> result.status,
                 code |-> result.code, response |-> result.response,
                 isNew |-> result.isNew, events |-> result.store.emitted,
                 delivered |-> result.store.delivered ]
    /\ listeners' = result.store.listeners
    /\ streams' = result.store.streams
    /\ UNCHANGED now

\* One HTTP call, handled from its arrival to its end with no other call
\* in between
Handled(route, body, result) == Completed(route, body, result) /\ UNCHANGED calls

\* External ids are opaque to the store: the clients use the new ones in
\* order, so a request carries a stored id or the first new id not yet used.
InOrder(body) ==
    \A i \in 1..MaxNewMessages :
        body.externalMessageId = "new-msg-" \o ToString(i) =>
            \A j \in 1..(i - 1) : "new-msg-" \o ToString(j) \in DOMAIN messagesByExternalId

PostEmail ==
    \E body \in EmailRequests :
        InOrder(body) /\ Handled("email", body, EmailPOST(TheStore, body, now))

PostSlack ==
    \E body \in SlackRequests :
        InOrder(body) /\ Handled("slack", body, SlackPOST(TheStore, body, now))

PostWhatsApp ==
    \E body \in WhatsAppRequests :
        InOrder(body) /\ Handled("whatsapp", body, WhatsAppPOST(TheStore, body, now))

PostLinkedIn ==
    \E body \in LinkedInRequests :
        InOrder(body) /\ Handled("linkedin", body, LinkedInPOST(TheStore, body, now))

PostUser == \E body \in UserRequests : Handled("users", body, UsersPOST(TheStore, body, now))

Tick ==
    /\ now < ConstructedAt + MaxTicks * TickMs
    /\ now' = now + TickMs
    /\ UNCHANGED << users, contacts, conversations, messages, messagesByExternalId,
                    contactsByUserAndEmail, conversationsByUserAndExternalId,
                    nextUuid, last, listeners, streams, calls >>

Next == PostEmail \/ PostSlack \/ PostWhatsApp \/ PostLinkedIn \/ PostUser

Spec == Init /\ [][Next]_vars

NextClock == Next \/ Tick

SpecClock == Init /\ [][NextClock]_vars

\* A week passes with no HTTP call
Week ==
    /\ now < ConstructedAt + MaxWeeks * INACTIVITY_THRESHOLD_DAYS * MS_PER_DAY
    /\ now' = now + INACTIVITY_THRESHOLD_DAYS * MS_PER_DAY
    /\ UNCHANGED << storeVars, last, listeners, streams, calls >>

NextWeek == Next \/ Week

SpecWeek == Init /\ [][NextWeek]_vars

\* emails whose receivedAt is present and is no date
UndatedRequests ==
    { EmailBody(DemoUser, m, c, "sarah.chen@acme.com", "Sarah Chen", "yesterday") :
        m \in NewExternalMessageIds, c \in { "thread-001", "thread-010" } }

PostUndated ==
    \E body \in UndatedRequests :
        InOrder(body) /\ Handled("email", body, EmailPOST(TheStore, body, now))

NextDates == Next \/ PostUndated

SpecDates == Init /\ [][NextDates]_vars

-----------------------------------------------------------------------------
(* The state machine with observers: streams are opened, aborted and      *)
(* cancelled and heartbeats fire while messages are ingested.             *)

\* the userId parameters of the user streams opened
StreamUserIds == { DemoUser }

\* the ids of the conversation streams asked for: the seeded thread-001,
\* and an id of no conversation
StreamConversationIds == { "uuid-5", "uuid-0" }

\* the ingestions made while streams are open
WatchedRequests ==
    { EmailBody(DemoUser, m, c, "sarah.chen@acme.com", "Sarah Chen", "") :
        m \in NewExternalMessageIds, c \in {"thread-001", "email:thread-001"} }
    \cup { EmailBody(SecondUser, m, "thread-001", "Sarah.Chen@ACME.com", "Sarah Chen", "") :
             m \in NewExternalMessageIds }

\* the number of the next stream opened
NextStream == Cardinality(DOMAIN streams) + 1

\* a step of a stream route or of a callback: the listeners and streams it
\* leaves; last keeps the answer of a stream route that refused
StreamStep(s, status, code) ==
    /\ listeners' = s.listeners
    /\ streams' = s.streams
    /\ last' = IF status = 404 THEN [ NoCall EXCEPT !.status = status, !.code = code ]
               ELSE NoCall
    /\ UNCHANGED << storeVars, now, calls >>

OpenUserStream ==
    /\ NextStream <= MaxStreams
    /\ \E userId \in StreamUserIds :
          LET result == UserStreamGET(TheStore, NextStream, userId)
          IN  StreamStep(result.store, result.status, result.code)

OpenConversationStream ==
    /\ NextStream <= MaxStreams
    /\ \E conversationId \in StreamConversationIds :
          LET result == ConversationStreamGET(TheStore, NextStream, conversationId)
          IN  StreamStep(result.store, result.status, result.code)

SubscribePlain ==
    /\ NextStream <= MaxStreams
    /\ StreamStep(PlainSubscribe(TheStore, NextStream), 0, "SUBSCRIBED")

\* the function subscribe returned to a plain listener is called
UnsubscribePlain ==
    \E n \in Range(listeners) :
        /\ streams[n].kind = "plain"
        /\ StreamStep(PlainUnsubscribe(TheStore, n), 0, "UNSUBSCRIBED")

\* the observer's disconnect signal fires
Abort ==
    \E n \in DOMAIN streams :
        /\ streams[n].kind # "plain"
        /\ ~streams[n].aborted
        /\ StreamStep(OnAbort(TheStore, n), 0, "ABORTED")

\* the consumer of a stream cancels it, or the sink of a plain listener
\* breaks: writes to it throw from now on
Cancel ==
    \E n \in DOMAIN streams :
        /\ streams[n].writable
        /\ StreamStep([ TheStore EXCEPT !.streams[n].writable = FALSE ], 0, "CANCELLED")

\* 30 seconds have passed for a registered heartbeat interval
Heartbeat ==
    \E n \in DOMAIN streams :
        /\ streams[n].timer
        /\ StreamStep(OnHeartbeat(TheStore, n), 0, "HEARTBEAT")

IngestWatched ==
    \E body \in WatchedRequests :
        InOrder(body) /\ Handled("email", body, EmailPOST(TheStore, body, now))

CreateSecondUser ==
    \E body \in UserRequests :
        /\ body.email # ""
        /\ Handled("users", body, UsersPOST(TheStore, body, now))

NextStreams ==
    \/ OpenUserStream \/ OpenConversationStream \/ SubscribePlain \/ UnsubscribePlain
    \/ Abort \/ Cancel \/ Heartbeat \/ IngestWatched \/ CreateSecondUser

SpecStreams == Init /\ [][NextStreams]_vars

\* Concurrent HTTP calls.  A handler is an async function: it suspends at
\* `await request.json()`, its one await, which comes before its first
\* store access, and the rest of it runs on the one JavaScript thread up to
\* its return.  calls holds, for each call received, its request, whether
\* it is suspended ("awaiting") or answered, and its answer.

ConcurrentRequests ==
    { body \in EmailRequests :
        /\ body.userId = DemoUser
        /\ body.externalMessageId \in NewExternalMessageIds
        /\ body.externalConversationId = "thread-001"
        /\ body.receivedAt = "" }

\* POST is called and suspends at `await request.json()`
Receive ==
    \E body \in ConcurrentRequests :
        /\ Len(calls) < MaxCalls
        /\ calls' = Append(calls, [ route |-> "email", request |-> body,
                                    state |-> "awaiting", status |-> 0,
                                    code |-> "NONE" ])
        /\ UNCHANGED << storeVars, now, last, listeners, streams >>

\* the body of a suspended call has been read: its handler runs to its end
Resume ==
    \E c \in DOMAIN calls :
        /\ calls[c].state = "awaiting"
        /\ LET result == EmailPOST(TheStore, calls[c].request, now)
           IN  /\ Completed("email", calls[c].request, result)
               /\ calls' = [ calls EXCEPT ![c] =
                               [ @ EXCEPT !.state = "answered",
                                          !.status = result.status,
                                          !.code = result.code ] ]

NextConcurrent == Receive \/ Resume

SpecConcurrent == Init /\ [][NextConcurrent]_vars

-----------------------------------------------------------------------------
(* Properties.  IngestionRoutes, RequestsOf and POST name the four          *)
(* ingestion handlers by their channel, so that a property can speak of     *)
(* every call a client can make in the current state.                       *)

IngestionRoutes == {"email", "slack", "whatsapp", "linkedin"}

RequestsOf(route) ==
    CASE route = "email" -> EmailRequests
      [] route = "slack" -> SlackRequests
      [] route = "whatsapp" -> WhatsAppRequests
      [] route = "linkedin" -> LinkedInRequests

\* POST /api/messages/<route>
POST(route, s, body, clock) ==
    CASE route = "email" -> EmailPOST(s, body, clock)
      [] route = "slack" -> SlackPOST(s, body, clock)
      [] route = "whatsapp" -> WhatsAppPOST(s, body, clock)
      [] route = "linkedin" -> LinkedInPOST(s, body, clock)

\* the request names a user, a message, a conversation and a sender
Complete(route, body) ==
    /\ body.userId # "" /\ body.externalMessageId # "" /\ body.externalConversationId # ""
    /\ body.from.name # ""
    /\ IF route = "whatsapp" THEN body.from.phone # "" ELSE body.from.email # ""

\* the messages stored under an externalId
StoredAs(externalId) == { m \in DOMAIN messages : messages[m].externalId = externalId }

\* the messages the routes have ingested since construction
Ingested == { m \in DOMAIN messages : m \notin DOMAIN seedData.messages }

\* C1: the store never holds two messages with one externalId, and a complete
\* request by a known user whose externalMessageId is that of a stored message
\* is answered 409 DUPLICATE_MESSAGE and leaves the messages as they were, on
\* whatever channel, for whatever user and under whatever
\* externalConversationId it is sent.
C1_OneMessagePerExternalId ==
    /\ \A m1, m2 \in DOMAIN messages :
          messages[m1].externalId = messages[m2].externalId => m1 = m2
    /\ \A route \in IngestionRoutes : \A body \in RequestsOf(route) :
          ( /\ Complete(route, body)
            /\ body.userId \in DOMAIN users
            /\ StoredAs(body.externalMessageId) # {} )
          => LET result == POST(route, TheStore, body, now)
             IN  /\ result.status = 409
                 /\ result.code = "DUPLICATE_MESSAGE"
                 /\ result.store.messages = messages
                 /\ result.store.messagesByExternalId = messagesByExternalId

\* a message ingested on the email channel for the demo user has been sent
\* again and refused, and sending it on slack, or for the second user, or
\* under another externalConversationId is refused too
C1_Witness ==
    /\ last.code = "DUPLICATE_MESSAGE"
    /\ SecondUser \in DOMAIN users
    /\ \E m \in Ingested :
          /\ messages[m].source = "email"
          /\ conversations[messages[m].conversationId].userId = DemoUser
          /\ conversations[messages[m].conversationId].externalId = "thread-001"
          /\ \E body \in SlackRequests :
                /\ body.externalMessageId = messages[m].externalId
                /\ SlackPOST(TheStore, body, now).code = "DUPLICATE_MESSAGE"
          /\ \E body \in EmailRequests :
                /\ body.externalMessageId = messages[m].externalId
                /\ body.userId = SecondUser
                /\ EmailPOST(TheStore, body, now).code = "DUPLICATE_MESSAGE"
          /\ \E body \in EmailRequests :
                /\ body.externalMessageId = messages[m].externalId
                /\ body.userId = DemoUser
                /\ body.externalConversationId # "thread-001"
                /\ EmailPOST(TheStore, body, now).code = "DUPLICATE_MESSAGE"


\* C2: a call answered DUPLICATE_MESSAGE changes nothing: the users,
\* contacts, conversations (so every priority and lastMessageAt) and
\* messages and the three lookup indexes are what they were before the call,
\* and the call handed no event to events.emit.
C2_ConflictMutatesNothing ==
    [][ last'.code = "DUPLICATE_MESSAGE" =>
            /\ last'.status = 409
            /\ UNCHANGED storeVars
            /\ last'.events = << >> ]_vars

\* a conflict has been answered after the routes had ingested two messages
C2_Witness ==
    /\ last.code = "DUPLICATE_MESSAGE"
    /\ last.status = 409
    /\ Cardinality(Ingested) = 2

\* C3: in every reachable state a request that lacks an identifying field
\* is answered 400 VALIDATION_ERROR, whoever its user is and whether or not
\* its message is stored; a complete request that names an unknown user is
\* answered 404 USER_NOT_FOUND, whether or not its message is stored; and
\* both answers leave the store as it was and hand no event to events.emit.
C3_ValidationThenUserThenDedup ==
    \A route \in IngestionRoutes : \A body \in RequestsOf(route) :
        LET result == POST(route, TheStore, body, now)
        IN  /\ ~Complete(route, body) =>
                 /\ result.status = 400
                 /\ result.code = "VALIDATION_ERROR"
                 /\ result.store = TheStore
            /\ (Complete(route, body) /\ body.userId \notin DOMAIN users) =>
                 /\ result.status = 404
                 /\ result.code = "USER_NOT_FOUND"
                 /\ result.store = TheStore

\* an unknown user has been answered USER_NOT_FOUND in a state where its
\* message is stored, and there an incomplete request of an unknown user
\* and an incomplete request with a stored message are VALIDATION_ERRORs
C3_Witness ==
    /\ last.code = "USER_NOT_FOUND"
    /\ last.events = << >>
    /\ Ingested # {}
    /\ \E body \in SlackRequests :
          /\ Complete("slack", body)
          /\ body.userId \notin DOMAIN users
          /\ StoredAs(body.externalMessageId) \cap Ingested # {}
          /\ SlackPOST(TheStore, body, now).code = "USER_NOT_FOUND"
    /\ \E body \in EmailRequests :
          /\ ~Complete("email", body)
          /\ body.userId \notin DOMAIN users
          /\ EmailPOST(TheStore, body, now).code = "VALIDATION_ERROR"
    /\ \E body \in LinkedInRequests :
          /\ ~Complete("linkedin", body)
          /\ StoredAs(body.externalMessageId) # {}
          /\ LinkedInPOST(TheStore, body, now).code = "VALIDATION_ERROR"


\* the email a route passes to findOrCreateContact
SenderEmail(route, body) ==
    IF route = "whatsapp" /\ body.from.email = ""
    THEN body.from.phone \o "@whatsapp.placeholder"
    ELSE body.from.email

\* the contacts of a user under an email, in any letter case
ContactsOf(userId, email) ==
    { c \in DOMAIN contacts :
        contacts[c].userId = userId /\ contacts[c].email = toLowerCase(email) }

\* C4: no two contacts have the same userId and the same lower-cased email,
\* and the contact an ingestion answers with, when it has the lower-cased
\* email of the request's sender, is a contact of the request's user and
\* never the contact another user has under that email.
C4_OneContactPerUserAndEmail ==
    /\ \A c1, c2 \in DOMAIN contacts :
          ( /\ contacts[c1].userId = contacts[c2].userId
            /\ toLowerCase(contacts[c1].email) = toLowerCase(contacts[c2].email) )
          => c1 = c2
    /\ (last.status = 201 /\ last.route \in IngestionRoutes) =>
          /\ last.response.contactId \in DOMAIN contacts
          /\ contacts[last.response.contactId].email
                = toLowerCase(SenderEmail(last.route, last.request))
             => contacts[last.response.contactId].userId = last.request.userId

\* the demo user's seeded contact sarah.chen@acme.com has been written to as
\* Sarah.Chen@ACME.com, and the second user has a contact of its own under
\* that email
C4_Witness ==
    /\ last.status = 201
    /\ last.route \in IngestionRoutes
    /\ last.request.userId = DemoUser
    /\ last.request.from.email = "Sarah.Chen@ACME.com"
    /\ last.response.contactId \in DOMAIN seedData.contacts
    /\ contacts[last.response.contactId].userId = DemoUser
    /\ \E c \in DOMAIN contacts :
          /\ contacts[c].userId = SecondUser
          /\ contacts[c].email = contacts[last.response.contactId].email
          /\ c # last.response.contactId

\* C5: an ingestion whose sender is a contact of the request's user, on
\* whatever channel that contact was first seen, answers with that contact's
\* id; and no step changes or removes a contact that exists: its name,
\* source and priority stay as createContact set them.
C5_ContactFirstWriteWins ==
    [][ /\ \A c \in DOMAIN contacts : c \in DOMAIN contacts' /\ contacts'[c] = contacts[c]
        /\ (last'.status = 201 /\ last'.route \in IngestionRoutes) =>
              \A c \in ContactsOf(last'.request.userId,
                                  SenderEmail(last'.route, last'.request)) :
                  /\ last'.response.contactId = c
                  /\ contacts' = contacts ]_vars

\* the contact seeded from the email channel has been the sender of a
\* message ingested on slack, and still has its seeded name, channel and
\* priority
C5_Witness ==
    /\ last.status = 201
    /\ last.route = "slack"
    /\ last.response.contactId \in DOMAIN seedData.contacts
    /\ contacts[last.response.contactId].source = "email"
    /\ contacts[last.response.contactId].name = "Sarah Chen (CEO)"
    /\ contacts[last.response.contactId].name # last.request.from.name
    /\ contacts[last.response.contactId].priority = 90


\* the conversations of a user on a channel under an externalId
ConversationsOf(userId, source, externalId) ==
    { c \in DOMAIN conversations :
        /\ conversations[c].userId = userId
        /\ conversations[c].source = source
        /\ conversations[c].externalId = externalId }

\* C6: no two conversations have the same userId, channel and externalId;
\* an ingestion is answered with the conversation of the request's user, on
\* the route's channel, under the request's externalConversationId; and
\* when no such conversation existed before the call, the call creates it,
\* with the sender's contact as its contactId, and leaves every conversation
\* that existed as it was.
C6_OneConversationPerUserChannelAndExternalId ==
    [][ /\ \A c1, c2 \in DOMAIN conversations' :
              ( /\ conversations'[c1].userId = conversations'[c2].userId
                /\ conversations'[c1].source = conversations'[c2].source
                /\ conversations'[c1].externalId = conversations'[c2].externalId )
              => c1 = c2
        /\ (last'.status = 201 /\ last'.route \in IngestionRoutes) =>
              LET conv == last'.response.conversationId
                  known == ConversationsOf(last'.request.userId, last'.route,
                                           last'.request.externalConversationId)
              IN  /\ conversations'[conv].userId = last'.request.userId
                  /\ conversations'[conv].source = last'.route
                  /\ conversations'[conv].externalId = last'.request.externalConversationId
                  /\ known = {} =>
                        /\ conv \notin DOMAIN conversations
                        /\ conversations'[conv].contactId = last'.response.contactId
                        /\ \A c \in DOMAIN conversations :
                              conversations'[c] = conversations[c] ]_vars

\* C7: in every reachable state, findOrCreateConversation called for a key
\* that is in the index returns isNew = FALSE and the indexed conversation
\* and leaves the store, so that conversation's title and contactId, as it
\* found it, whatever title and contactId the call carries; called for a
\* key that is not in the index it returns isNew = TRUE and a conversation
\* that did not exist, stored with priority 50 and the call's title and
\* contactId.
C7_ConversationFirstWriteWins ==
    \A route \in IngestionRoutes : \A body \in RequestsOf(route) :
      \A contactId \in DOMAIN seedData.contacts : \A title \in {"(No Subject)", "A new title"} :
        LET data == [ userId |-> body.userId, contactId |-> contactId,
                      externalId |-> body.externalConversationId, source |-> route,
                      title |-> title ]
            key == data.userId \o ":" \o data.source \o ":" \o data.externalId
            result == findOrCreateConversation(TheStore, data, now)
        IN  IF key \in DOMAIN conversationsByUserAndExternalId
            THEN /\ result.isNew = FALSE
                 /\ result.conversation = conversationsByUserAndExternalId[key]
                 /\ result.store = TheStore
            ELSE /\ result.isNew = TRUE
                 /\ result.conversation \notin DOMAIN conversations
                 /\ result.store.conversations[result.conversation].priority = 50
                 /\ result.store.conversations[result.conversation].title = title
                 /\ result.store.conversations[result.conversation].contactId = contactId
                 /\ \A c \in DOMAIN conversations :
                       result.store.conversations[c] = conversations[c]

\* an ingestion has hit a conversation whose contact is not the sender's and
\* whose title is not the one the route gave the call, after another
\* ingestion had created a conversation
C7_Witness ==
    /\ last.status = 201
    /\ last.route = "slack"
    /\ last.isNew = FALSE
    /\ conversations[last.response.conversationId].contactId # last.response.contactId
    /\ conversations[last.response.conversationId].title # "DM with " \o last.request.from.name
    /\ \E c \in DOMAIN conversations : c \notin DOMAIN seedData.conversations


\* the text of a request that the routes score and store
ContentOf(route, body) == IF route = "email" THEN body.body ELSE body.content

C9_LastMessageAtIsLatestMessage ==
    \A c \in DOMAIN conversations :
        MessagesOf(TheStore, c) # {} =>
            LET latest == getLatestMessageForConversation(TheStore, c)
            IN  /\ \A m \in MessagesOf(TheStore, c) :
                      messages[m].createdAt <= messages[latest].createdAt
                /\ conversations[c].lastMessageAt = messages[latest].createdAt

\* C10: an ingestion answered 201 hands to events.emit, when its
\* conversation did not exist before the call, conversation:new, message:new
\* and conversation:updated, in this order, and otherwise message:new and
\* conversation:updated, in this order, and nothing else; each event carries
\* the id of the conversation and the userId of the conversation, and
\* message:new carries the id of the message.
C10_EventsOfAnIngestion ==
    [][ (last'.status = 201 /\ last'.route \in IngestionRoutes) =>
          LET conv == last'.response.conversationId
              types == [ i \in DOMAIN last'.events |-> last'.events[i].type ]
          IN  /\ IF conv \notin DOMAIN conversations
                 THEN types = << "conversation:new", "message:new", "conversation:updated" >>
                 ELSE types = << "message:new", "conversation:updated" >>
              /\ \A i \in DOMAIN last'.events :
                    /\ last'.events[i].data.conversationId = conv
                    /\ last'.events[i].data.userId = conversations'[conv].userId
                    /\ last'.events[i].type = "message:new" =>
                          last'.events[i].data.messageId = last'.response.messageId
      ]_vars

\* an ingestion has created its conversation and emitted three events, the
\* first of them conversation:new, after another ingestion had emitted two
C10_Witness ==
    /\ last.status = 201
    /\ last.route \in IngestionRoutes
    /\ last.isNew
    /\ Len(last.events) = 3
    /\ last.events[1].type = "conversation:new"
    /\ \E m \in Ingested : messages[m].conversationId \in DOMAIN seedData.conversations


\* the events of a type among those the last call emitted
EventsOfType(type) == { i \in DOMAIN last.events : last.events[i].type = type }

\* C11: after an ingestion answered 201 the response's messageId is a
\* stored message that has the request's externalMessageId and content and
\* belongs to the response's conversationId, and the response's priority is
\* that conversation's stored priority and the priority of the one
\* conversation:updated event the call emitted.
C11_ResponseOfAnIngestion ==
    (last.status = 201 /\ last.route \in IngestionRoutes) =>
        LET message == last.response.messageId
            conv == last.response.conversationId
        IN  /\ message \in DOMAIN messages
            /\ messages[message].externalId = last.request.externalMessageId
            /\ messages[message].content = ContentOf(last.route, last.request)
            /\ StoredAs(last.request.externalMessageId) = { message }
            /\ messages[message].conversationId = conv
            /\ conv \in DOMAIN conversations
            /\ conversations[conv].priority = last.response.priority
            /\ Cardinality(EventsOfType("conversation:updated")) = 1
            /\ \A i \in EventsOfType("conversation:updated") :
                  /\ last.events[i].data.conversationId = conv
                  /\ last.events[i].data.priority = last.response.priority

\* a second message has been ingested into a conversation and has changed
\* its priority from 50 or more to 0, which the response and the event carry
C11_Witness ==
    /\ last.status = 201
    /\ last.route \in IngestionRoutes
    /\ last.response.priority = 0
    /\ last.events[Len(last.events)].data.priority = 0
    /\ \E m \in Ingested :
          /\ m # last.response.messageId
          /\ messages[m].conversationId = last.response.conversationId
          /\ messages[m].createdAt = ConstructedAt

\* C12: every call of an ingestion route ends VALIDATION_ERROR,
\* USER_NOT_FOUND, DUPLICATE_MESSAGE or CREATED; the first three leave the
\* store as it was; a call that stores a message has resolved the contact
\* and the conversation before it (their ids, when new, were drawn in this
\* order before the message's) and goes on to score the message and update
\* the conversation, ending CREATED with conversation:updated as its last
\* event.
C12_OneTerminalOutcome ==
    [][ last'.route # "users" =>
          /\ last'.code \in {"VALIDATION_ERROR", "USER_NOT_FOUND", "DUPLICATE_MESSAGE", "CREATED"}
          /\ last'.code # "CREATED" => (UNCHANGED storeVars /\ last'.events = << >>)
          /\ messages' # messages =>
                /\ last'.code = "CREATED"
                /\ last'.events # << >>
                /\ last'.events[Len(last'.events)].type = "conversation:updated"
          /\ last'.code = "CREATED" =>
                LET contact == last'.response.contactId
                    conv == last'.response.conversationId
                    message == last'.response.messageId
                IN  /\ message \notin DOMAIN messages /\ message \in DOMAIN messages'
                    /\ contact \in DOMAIN contacts' /\ conv \in DOMAIN conversations'
                    /\ contact \notin DOMAIN contacts =>
                          InsertionOrder(contact) < InsertionOrder(message)
                    /\ conv \notin DOMAIN conversations =>
                          InsertionOrder(conv) < InsertionOrder(message)
                    /\ (contact \notin DOMAIN contacts /\ conv \notin DOMAIN conversations) =>
                          InsertionOrder(contact) < InsertionOrder(conv)
                    /\ conversations'[conv].priority = last'.response.priority ]_vars


\* the listener calls that emit makes for the events of the last call: for
\* each event in turn, each listener in the order of subscription
CallsInOrder ==
    [ k \in 1..(Len(last.events) * Len(listeners)) |->
        [ listener |-> listeners[((k - 1) % Len(listeners)) + 1],
          type |-> last.events[((k - 1) \div Len(listeners)) + 1].type ] ]

\* the last k elements of a sequence
Tail_(seq, k) == SubSeq(seq, Len(seq) - k + 1, Len(seq))

\* C14: the listener calls made during an HTTP call are, for each event it
\* emitted in turn, one call of every subscribed listener, in the order of
\* subscription, all made before the call is answered; a plain listener
\* whose sink is writable holds each of the events once, in order.
C14_EmitCallsEveryListenerInOrder ==
    last.events # << >> =>
        /\ [ k \in DOMAIN last.delivered |->
               [ listener |-> last.delivered[k].listener,
                 type |-> last.delivered[k].type ] ] = CallsInOrder
        /\ \A n \in Range(listeners) :
              (streams[n].kind = "plain" /\ streams[n].writable) =>
                  /\ Len(streams[n].received) >= Len(last.events)
                  /\ Tail_(streams[n].received, Len(last.events)) = last.events

\* an ingestion has emitted three events while a user stream and then a
\* plain listener were subscribed
C14_Witness ==
    /\ last.status = 201
    /\ Len(last.events) = 3
    /\ Len(listeners) = 2
    /\ streams[listeners[1]].kind = "user"
    /\ streams[listeners[2]].kind = "plain"
    /\ streams[listeners[2]].writable
    /\ Len(last.delivered) = 6

\* C15: whatever listeners are subscribed and whichever of them throw, an
\* ingestion is answered as it is when no listener is subscribed, with the
\* same status, code and response and the same store; and every subscribed
\* listener, those after a throwing one too, is called for every event.
C15_ListenerFailuresAreIsolated ==
    \A body \in WatchedRequests :
        LET result == EmailPOST(TheStore, body, now)
            alone == EmailPOST([ TheStore EXCEPT !.listeners = << >> ], body, now)
        IN  /\ result.status = alone.status
            /\ result.code = alone.code
            /\ result.response = alone.response
            /\ result.store.users = alone.store.users
            /\ result.store.contacts = alone.store.contacts
            /\ result.store.conversations = alone.store.conversations
            /\ result.store.messages = alone.store.messages
            /\ result.store.messagesByExternalId = alone.store.messagesByExternalId
            /\ result.store.contactsByUserAndEmail = alone.store.contactsByUserAndEmail
            /\ result.store.conversationsByUserAndExternalId
                  = alone.store.conversationsByUserAndExternalId
            /\ result.store.emitted = alone.store.emitted
            /\ Len(result.store.delivered) = Len(result.store.emitted) * Len(listeners)
            /\ \A n \in Range(listeners) :
                  Cardinality({ k \in DOMAIN result.store.delivered :
                                  result.store.delivered[k].listener = n })
                     = Len(result.store.emitted)

\* an ingestion was answered 201 although the first listener threw at each
\* event, and the listener subscribed after it has received the events
C15_Witness ==
    /\ last.status = 201
    /\ Len(listeners) = 2
    /\ last.events # << >>
    /\ streams[listeners[1]].kind = "plain"
    /\ \A k \in DOMAIN last.delivered :
          last.delivered[k].listener = listeners[1] => last.delivered[k].threw
    /\ streams[listeners[2]].kind = "user"
    /\ Len(streams[listeners[2]].received) > 1

\* C16: a step calls only listeners that were subscribed when it began; a
\* listener subscribed by a step is not called in that step and starts with
\* no store event (a stream with its connection event alone), whatever was
\* emitted before; and once the function subscribe returned has been
\* called, the listener is subscribed no more and receives nothing more.
C16_OnlyWhileSubscribed ==
    [][ /\ \A k \in DOMAIN last'.delivered :
              last'.delivered[k].listener \in Range(listeners)
        /\ \A n \in DOMAIN streams' \ DOMAIN streams :
              /\ \A k \in DOMAIN last'.delivered : last'.delivered[k].listener # n
              /\ \A k \in DOMAIN streams'[n].received :
                    streams'[n].received[k].data.messageId = "connection-established"
        /\ \A n \in DOMAIN streams :
              streams[n].unsubscribed =>
                  /\ n \notin Range(listeners')
                  /\ streams'[n].received = streams[n].received
                  /\ \A k \in DOMAIN last'.delivered : last'.delivered[k].listener # n
      ]_vars

\* a stream that received store events and was then aborted has not been
\* called by the last ingestion, and a plain listener subscribed after the
\* first ingestion holds the events of the second alone
C16_Witness ==
    /\ last.status = 201
    /\ last.events # << >>
    /\ Cardinality(Ingested) = 2
    /\ \E n \in DOMAIN streams :
          /\ streams[n].unsubscribed
          /\ Len(streams[n].received) > 1
          /\ \A k \in DOMAIN last.delivered : last.delivered[k].listener # n
    /\ \E n \in Range(listeners) :
          /\ streams[n].kind = "plain"
          /\ streams[n].received = last.events


\* the stream routes' streams among the sinks
IsStream(n) == streams[n].kind # "plain"

\* C17: a stream that has ended, by its disconnect signal, by a failed
\* heartbeat write or by a failed event write, has no listener subscribed
\* and no keep-alive timer running.
C17_EndedStreamLeavesNothingRegistered ==
    \A n \in DOMAIN streams :
        (/\ IsStream(n)
         /\ \/ streams[n].aborted
            \/ streams[n].failedHeartbeat
            \/ streams[n].failedEvent)
        => /\ n \notin Range(listeners)
           /\ ~streams[n].timer

\* C18: a failed write of an event to a stream is caught, so that the
\* stream's listener does not throw into emit, and the listener of a stream
\* whose event write has failed is subscribed no more and is called for no
\* later event.
C18_FailedWriteUnsubscribes ==
    [][ /\ \A k \in DOMAIN last'.delivered :
              IsStream(last'.delivered[k].listener) => ~last'.delivered[k].threw
        /\ \A n \in DOMAIN streams :
              (IsStream(n) /\ streams[n].failedEvent) =>
                  /\ n \notin Range(listeners)
                  /\ \A k \in DOMAIN last'.delivered :
                        last'.delivered[k].listener # n
      ]_vars

\* the store events a stream has forwarded, after its connection event
Forwarded(n) == SubSeq(streams[n].received, 2, Len(streams[n].received))

\* C19: a user stream opened with userId u forwards only events whose
\* userId is u, and an ingestion by another user leaves what it has
\* forwarded unchanged; a conversation stream forwards only message:new
\* events of its own conversation.
C19_StreamsForwardTheirOwnEventsOnly ==
    [][ \A n \in DOMAIN streams :
          /\ streams[n].kind = "user" =>
                /\ \A k \in DOMAIN Forwarded(n)' :
                      Forwarded(n)'[k].data.userId = streams[n].userId
                /\ (/\ last'.status = 201
                    /\ last'.route \in IngestionRoutes
                    /\ last'.request.userId # streams[n].userId)
                      => streams'[n].received = streams[n].received
          /\ streams[n].kind = "conversation" =>
                \A k \in DOMAIN Forwarded(n)' :
                    /\ Forwarded(n)'[k].type = "message:new"
                    /\ Forwarded(n)'[k].data.conversationId = streams[n].conversationId
      ]_vars


\* the calls that carry an externalMessageId
CallsWith(externalId) ==
    { c \in DOMAIN calls : calls[c].request.externalMessageId = externalId }

\* C13: when two calls in flight together carry one new externalMessageId,
\* then, in whatever order they arrive and resume, once both are answered
\* one has ended CREATED and the other DUPLICATE_MESSAGE, and the store
\* holds exactly one message with that externalId.
C13_ConcurrentSubmissionsOneCreatedOneConflict ==
    \A m \in NewExternalMessageIds :
        (/\ Cardinality(CallsWith(m)) = 2
         /\ \A c \in CallsWith(m) : calls[c].state = "answered")
        => /\ \E c, d \in CallsWith(m) :
                 /\ calls[c].code = "CREATED"
                 /\ calls[d].code = "DUPLICATE_MESSAGE"
           /\ Cardinality(StoredAs(m)) = 1


\* the users and channels a list is asked for
ListUserIds == { DemoUser, SecondUser }

ListSources == { Undefined, "email", "slack" }

NoOptions == << >>

\* the conversations of a user, on a channel when one is given
ListedFor(userId, source) ==
    { c \in DOMAIN conversations :
        /\ conversations[c].userId = userId
        /\ source # Undefined => conversations[c].source = source }

\* C20: getConversationsForUser returns the conversations of the given
\* user, on the given channel when one is given, each once and no other;
\* one of higher priority comes before one of lower priority and, of two of
\* equal priority, the one created later comes first; total is the number
\* of conversations that pass the filter.
C20_ConversationsOfUserByPriorityThenNewest ==
    \A userId \in ListUserIds, source \in ListSources :
        LET result == getConversationsForUser(TheStore, userId, [ source |-> source ])
            list == result.conversations
        IN  /\ { list[i].id : i \in DOMAIN list } = ListedFor(userId, source)
            /\ \A i \in DOMAIN list : list[i] = conversations[list[i].id]
            /\ Len(list) = Cardinality(ListedFor(userId, source))
            /\ result.total = Cardinality(ListedFor(userId, source))
            /\ \A i, j \in DOMAIN list :
                  i < j => \/ list[i].priority > list[j].priority
                           \/ /\ list[i].priority = list[j].priority
                              /\ list[i].createdAt >= list[j].createdAt

\* the list of the demo user holds two conversations of equal priority of
\* which the one created later, and inserted later, comes first
C20_Witness ==
    LET list == getConversationsForUser(TheStore, DemoUser, NoOptions).conversations
    IN  \E i, j \in DOMAIN list :
           /\ i < j
           /\ list[i].priority = list[j].priority
           /\ list[i].createdAt > list[j].createdAt
           /\ InsertionOrder(list[i].id) > InsertionOrder(list[j].id)


\* C21: in every answer of GET /api/conversations, whenever it is asked,
\* the priorities reported are non-increasing down the list, and a
\* conversation inactive for 7 days or more is reported with priority 0.
C21_ReportedPrioritiesNonIncreasing ==
    \A query \in ListQueries :
        LET answer == ConversationsGET(TheStore, query, now)
        IN  answer.status = 200 =>
              /\ \A i \in DOMAIN answer.data :
                    isInactive(answer.data[i].lastMessageAt, now)
                       => answer.data[i].priority = 0
              /\ \A i, j \in DOMAIN answer.data :
                    i < j => answer.data[i].priority >= answer.data[j].priority

SignalValues ==
    [ urgencyKeywords : { Min(URGENCY_KEYWORDS[i][2], 20) : i \in DOMAIN URGENCY_KEYWORDS }
                          \cup { 0 },
      recency : { 0, 5, 10, 15, 20 },
      responseExpectation : { RESPONSE_EXPECTATION(source) : source \in IngestionRoutes },
      providerBoost : { -10, -5, -3, 0, 5, 10 } ]

\* the scores of all values of the signals, for the contact priorities
\* from 0 to 100
ScoresOfAllSignals ==
    { calculatePriorityOfSignals(c, signals.urgencyKeywords, signals.recency,
                                 signals.responseExpectation, signals.providerBoost) :
        c \in 0..100, signals \in SignalValues }

\* the context the routes give calculatePriority for a stored message, with
\* the contact priority given
ContextOf(message, contactPriority) ==
    [ source |-> conversations[message.conversationId].source,
      content |-> message.content, lastMessageAt |-> message.createdAt,
      contactPriority |-> contactPriority, metadata |-> message.metadata ]

\* C24: calculatePriority returns an integer from 0 to 100 for every contact
\* priority from 0 to 100, whatever the other signals are and whatever the
\* channel, content, age and metadata of a stored message; every priority
\* a conversation stores, and every priority GET /api/conversations
\* reports, is an integer from 0 to 100.
C24_PriorityBetween0And100 ==
    /\ ScoresOfAllSignals \subseteq 0..100
    /\ \A id \in DOMAIN messages, c \in 0..100 :
          IsString(messages[id].content)
             => calculatePriority(ContextOf(messages[id], c), now) \in 0..100
    /\ \A id \in DOMAIN conversations : conversations[id].priority \in 0..100
    /\ \A query \in ListQueries :
          LET answer == ConversationsGET(TheStore, query, now)
          IN  \A i \in DOMAIN answer.data : answer.data[i].priority \in 0..100

\* an ingestion has just stored a priority it calculated, and one of the
\* contexts of the stored messages scores 85 or more with contact priority 100, one 15 or less with contact priority 0
C24_Witness ==
    /\ last.status = 201
    /\ \E id \in DOMAIN conversations :
          /\ conversations[id].priority = last.response.priority
          /\ conversations[id].priority > 0
    /\ \E id \in DOMAIN messages :
          /\ IsString(messages[id].content)
          /\ calculatePriority(ContextOf(messages[id], 100), now) >= 85
    /\ \E id \in DOMAIN messages :
          /\ IsString(messages[id].content)
          /\ calculatePriority(ContextOf(messages[id], 0), now) <= 15


\* the stored priorities given to the read-time check
StoredPriorities == { 0, 1, 56, 85, 100 }

\* C25: for the createdAt of every stored message and the lastMessageAt of
\* every conversation, at every clock reading: when it lies 7 days or more
\* back (exactly 7 days included), calculatePriority returns 0, without
\* throwing, for every channel, the message's content and metadata and every
\* contact priority, and getPriorityWithInactivityCheck returns 0 for every
\* stored priority; when it lies less than 7 days back,
\* getPriorityWithInactivityCheck returns the stored priority.
C25_SevenDaysOldScoresZero ==
    LET dates == { messages[id].createdAt : id \in DOMAIN messages }
                   \cup { conversations[id].lastMessageAt : id \in DOMAIN conversations }
    IN  /\ \A id \in DOMAIN messages, source \in IngestionRoutes, c \in { 0, 50, 90, 100 } :
              LET context == [ ContextOf(messages[id], c) EXCEPT !.source = source ]
              IN  now - messages[id].createdAt >= 7 * 24 * 60 * 60 * 1000
                     => /\ ~calculatePriorityThrows(context, now)
                        /\ calculatePriority(context, now) = 0
        /\ \A at \in dates, stored \in StoredPriorities :
              getPriorityWithInactivityCheck(stored, at, now)
                 = IF now - at >= 7 * 24 * 60 * 60 * 1000 THEN 0 ELSE stored
        /\ \A id \in DOMAIN conversations :
              LET conversation == conversations[id]
              IN  getPriorityWithInactivityCheck(conversation.priority,
                                                 conversation.lastMessageAt, now)
                    = IF now - conversation.lastMessageAt >= 7 * 24 * 60 * 60 * 1000
                      THEN 0 ELSE conversation.priority

\* a conversation whose last message is exactly 7 days old and whose stored
\* priority is above 0, beside one less than 7 days old and one older
C25_Witness ==
    /\ \E id \in DOMAIN conversations :
          /\ now - conversations[id].lastMessageAt = 7 * 24 * 60 * 60 * 1000
          /\ conversations[id].priority > 0
    /\ \E id \in DOMAIN conversations :
          /\ now - conversations[id].lastMessageAt < 7 * 24 * 60 * 60 * 1000
          /\ conversations[id].priority > 0
    /\ \E id \in DOMAIN messages :
          now - messages[id].createdAt > 7 * 24 * 60 * 60 * 1000


\* 20 times 0.40*contactPriority + 0.20*(urgency/20*100)
\* + 0.20*(recency/20*100) + 0.15*(responseExpectation/15*100)
\* + 0.05*((providerBoost+10)/20*100), with the recency and the response
\* expectation of the tiers named
TwentyTimesWeighted(context, clock) ==
    LET age == clock - context.lastMessageAt
        recency == IF age < 60 * 60 * 1000 THEN 20
                   ELSE IF age < 4 * 60 * 60 * 1000 THEN 15
                   ELSE IF age < 24 * 60 * 60 * 1000 THEN 10
                   ELSE IF age < 72 * 60 * 60 * 1000 THEN 5 ELSE 0
        responseExpectation ==
            CASE context.source = "email" -> 5 [] context.source = "slack" -> 12
              [] context.source = "whatsapp" -> 15 [] context.source = "linkedin" -> 3
    IN  8 * context.contactPriority + 20 * calculateUrgencyScore(context.content)
        + 20 * recency + 20 * responseExpectation
        + 5 * (calculateProviderBoost(context.source, context.metadata) + 10)

\* an email containing "urgent" and "asap", contact priority 90, 30 minutes
\* old, importance high
UrgentEmailScenario(clock) ==
    [ source |-> "email", content |-> "This is urgent, please answer asap",
      lastMessageAt |-> clock - 30 * 60 * 1000, contactPriority |-> 90,
      metadata |-> [ importance |-> "high" ] ]

\* a chat direct message without keywords, 2 hours old, contact priority 60
DirectMessageScenario(clock) ==
    [ source |-> "slack", content |-> "See you at lunch",
      lastMessageAt |-> clock - 2 * 60 * 60 * 1000, contactPriority |-> 60,
      metadata |-> [ isDirectMessage |-> TRUE ] ]

\* ages in ms at both sides of the limits of the recency tiers, all below
\* 7 days
AgesAtTheTiers ==
    { 0, 60 * 60 * 1000 - 1, 60 * 60 * 1000, 4 * 60 * 60 * 1000 - 1, 4 * 60 * 60 * 1000,
      24 * 60 * 60 * 1000 - 1, 24 * 60 * 60 * 1000, 72 * 60 * 60 * 1000 - 1,
      72 * 60 * 60 * 1000, 7 * 24 * 60 * 60 * 1000 - 1 }

\* C26: at every clock reading, for the context of every stored message of
\* a string content that is less than 7 days old, on every channel and with
\* contact priorities 0, 5, 50, 60, 90 and 100, calculatePriority is an
\* integer from 0 to 100 nearest to the weighted sum (no further from it
\* than one half), and so it is for the two scenarios at every age at the
\* limits of the recency tiers; the urgent email of the scenario scores 85
\* and the direct message 56.
C26_WeightedSumOfTheSignals ==
    /\ \A id \in DOMAIN messages, source \in IngestionRoutes,
          c \in { 0, 5, 50, 60, 90, 100 } :
          LET context == [ ContextOf(messages[id], c) EXCEPT !.source = source ]
              score == calculatePriority(context, now)
              exact20 == TwentyTimesWeighted(context, now)
          IN  (/\ IsString(context.content)
               /\ now - context.lastMessageAt < 7 * 24 * 60 * 60 * 1000)
                 => /\ score \in 0..100
                    /\ 20 * score - exact20 <= 10
                    /\ exact20 - 20 * score <= 10
    /\ \A age \in AgesAtTheTiers, scenario \in { UrgentEmailScenario(now),
                                                 DirectMessageScenario(now) } :
          LET context == [ scenario EXCEPT !.lastMessageAt = now - age ]
              score == calculatePriority(context, now)
              exact20 == TwentyTimesWeighted(context, now)
          IN  /\ score \in 0..100
              /\ 20 * score - exact20 <= 10
              /\ exact20 - 20 * score <= 10
    /\ calculatePriority(UrgentEmailScenario(now), now) = 85
    /\ calculatePriority(DirectMessageScenario(now), now) = 56

\* the clock has moved on, and the stored messages less than 7 days old
\* fall into the recency tiers 20, 15, 10 and 5
C26_Witness ==
    /\ now > ConstructedAt
    /\ \A tier \in { 5, 10, 15, 20 } :
          \E id \in DOMAIN messages :
             /\ IsString(messages[id].content)
             /\ now - messages[id].createdAt < 7 * 24 * 60 * 60 * 1000
             /\ calculateRecencyScore(messages[id].createdAt, now) = tier


\* the inputs of calculatePriority in the ingestion that ended in call
ScoredInputs(call, contactsThen, clock) ==
    [ source |-> call.route, content |-> ContentOf(call.route, call.request),
      lastMessageAt |-> MessageDate(call.request.receivedAt, clock),
      contactPriority |-> contactsThen[call.response.contactId].priority,
      metadata |-> call.request.metadata ]

\* the contexts scored again after each step: the two scenarios, and the
\* inputs of the last ingestion when the last call was one that scored
RescoredContexts ==
    { UrgentEmailScenario(now), DirectMessageScenario(now) }
    \cup (IF last.status = 201 /\ last.route \in IngestionRoutes
          THEN { ScoredInputs(last, contacts, now) } ELSE {})

C28_UserEmailStoredAsProvided ==
    (last.route = "users" /\ last.status = 201)
        => /\ last.request.id \in DOMAIN users
           /\ users[last.request.id].email = last.request.email


\* the references of the store s are whole: every message is in a
\* conversation of s, every conversation has a contact of s that its user
\* owns, and a message
ReferencesWhole(s) ==
    /\ \A id \in DOMAIN s.messages : s.messages[id].conversationId \in DOMAIN s.conversations
    /\ \A id \in DOMAIN s.conversations :
          /\ s.conversations[id].contactId \in DOMAIN s.contacts
          /\ s.contacts[s.conversations[id].contactId].userId = s.conversations[id].userId
          /\ \E m \in DOMAIN s.messages : s.messages[m].conversationId = id

\* C29: after every step the references of the store are whole: every
\* message's conversationId names a conversation, every conversation's
\* contactId names a contact of the conversation's user, and every
\* conversation has a message; an ingestion that stored no message has
\* stored no contact and no conversation.
C29_NoOrphans ==
    [][ /\ ReferencesWhole(TheStore)'
        /\ (last'.route \in IngestionRoutes /\ messages' = messages)
              => contacts' = contacts /\ conversations' = conversations
      ]_vars

\* C30: every step keeps every message that was stored, under its id and
\* with its id, externalId, conversationId, channel, content, metadata and
\* createdAt, and keeps every conversation that was stored, under its id
\* and with its id.
C30_MessagesAndConversationsKept ==
    [][ /\ \A id \in DOMAIN messages :
              /\ id \in DOMAIN messages'
              /\ messages'[id].id = id
              /\ messages[id].id = id
              /\ messages'[id].externalId = messages[id].externalId
              /\ messages'[id].conversationId = messages[id].conversationId
              /\ messages'[id].source = messages[id].source
              /\ messages'[id].content = messages[id].content
              /\ messages'[id].metadata = messages[id].metadata
              /\ messages'[id].createdAt = messages[id].createdAt
        /\ \A id \in DOMAIN conversations :
              /\ id \in DOMAIN conversations'
              /\ conversations'[id].id = id
      ]_vars

\* an ingestion has stored a message in a conversation that held messages
\* and has changed that conversation's priority and lastMessageAt
C30_Witness ==
    /\ last.status = 201
    /\ last.route \in IngestionRoutes
    /\ last.isNew = FALSE
    /\ last.response.conversationId \in DOMAIN seedData.conversations
    /\ conversations[last.response.conversationId].priority
          # seedData.conversations[last.response.conversationId].priority
    /\ conversations[last.response.conversationId].lastMessageAt
          # seedData.conversations[last.response.conversationId].lastMessageAt
    /\ \E id \in DOMAIN seedData.messages :
          messages[id].conversationId = last.response.conversationId


\* the index holds one entry for each entity of the primary map, under the
\* entity's key, naming that entity, and no other entry
IndexAgrees(index, primary, KeyOf(_)) ==
    /\ DOMAIN index = { KeyOf(primary[id]) : id \in DOMAIN primary }
    /\ Cardinality(DOMAIN index) = Cardinality(DOMAIN primary)
    /\ \A key \in DOMAIN index :
          /\ index[key] \in DOMAIN primary
          /\ primary[index[key]].id = index[key]
          /\ KeyOf(primary[index[key]]) = key

\* C31: in every reachable state messagesByExternalId holds one entry per
\* stored message under its externalId, contactsByUserAndEmail one entry
\* per stored contact under userId:email, and
\* conversationsByUserAndExternalId one entry per stored conversation under
\* userId:source:externalId, each naming that entity, and none of them
\* holds an entry for an entity that is not stored.
C31_IndexesAgreeWithMaps ==
    /\ IndexAgrees(messagesByExternalId, messages, LAMBDA m : m.externalId)
    /\ IndexAgrees(contactsByUserAndEmail, contacts,
                   LAMBDA c : c.userId \o ":" \o c.email)
    /\ IndexAgrees(conversationsByUserAndExternalId, conversations,
                   LAMBDA c : c.userId \o ":" \o c.source \o ":" \o c.externalId)

\* ingestions have stored a message, a contact whose email was sent in
\* upper case and a conversation
C31_Witness ==
    /\ \E id \in DOMAIN messages : id \notin DOMAIN seedData.messages
    /\ \E id \in DOMAIN conversations : id \notin DOMAIN seedData.conversations
    /\ \E id \in DOMAIN contacts :
          /\ id \notin DOMAIN seedData.contacts
          /\ last.status = 201
          /\ last.route \in IngestionRoutes
          /\ last.response.contactId = id
          /\ last.request.from.email # contacts[id].email


\* contents with no keyword, with one, and with several of different scores
\* in either letter case
KeywordContents ==
    { "Lunch at noon?", "This is CRITICAL", "Critical: the Deadline is near, reply soon",
      "important and needed", "Important", "no rush", "URGENT urgent asap Emergency" }

\* the keywords of the table that occur in the content, whatever the case
\* of its letters
OccurringIn ==
    [ content \in ContentStrings \cup KeywordContents |->
        { i \in DOMAIN URGENCY_KEYWORDS :
            includes(LowerString(content), URGENCY_KEYWORDS[i][1]) } ]

\* the urgency scores of the contents, as calculateUrgencyScore gives them
ScoredUrgency ==
    [ content \in ContentStrings \cup KeywordContents |-> calculateUrgencyScore(content) ]

\* the score is the highest of the keywords that occur, 0 with none
HighestOccurring(content) ==
    /\ ScoredUrgency[content] \in 0..20
    /\ OccurringIn[content] = {} => ScoredUrgency[content] = 0
    /\ \A i \in OccurringIn[content] : ScoredUrgency[content] >= URGENCY_KEYWORDS[i][2]
    /\ OccurringIn[content] # {}
          => \E i \in OccurringIn[content] : ScoredUrgency[content] = URGENCY_KEYWORDS[i][2]

\* C32: calculateUrgencyScore of a content is the highest score among the
\* keywords that occur in it as substrings, letter case ignored, 0 when none
\* occurs and never above 20, for the content of every stored message and
\* for the contents listed; a content with several keywords scores what the
\* content with only the highest of them scores, not the sum.
C32_UrgencyIsTheHighestKeyword ==
    /\ \A content \in KeywordContents : HighestOccurring(content)
    /\ \A id \in DOMAIN messages :
          IsString(messages[id].content) => HighestOccurring(messages[id].content)
    /\ ScoredUrgency["Lunch at noon?"] = 0
    /\ ScoredUrgency["no rush"] = 0
    /\ ScoredUrgency["Critical: the Deadline is near, reply soon"]
          = ScoredUrgency["This is CRITICAL"]
    /\ ScoredUrgency["This is CRITICAL"] = 18
    /\ ScoredUrgency["important and needed"] = ScoredUrgency["Important"]
    /\ ScoredUrgency["Important"] = 10
    /\ ScoredUrgency["URGENT urgent asap Emergency"] = 20

\* an ingestion has stored a message whose content has two keywords in
\* upper and lower case, beside a stored message with keywords of
\* different scores
C32_Witness ==
    /\ last.status = 201
    /\ last.route = "email"
    /\ Cardinality(OccurringIn[messages[last.response.messageId].content]) >= 2
    /\ messages[last.response.messageId].content
          # LowerString(messages[last.response.messageId].content)
    /\ \E id \in DOMAIN messages :
          /\ IsString(messages[id].content)
          /\ \E i, j \in OccurringIn[messages[id].content] :
                URGENCY_KEYWORDS[i][2] < URGENCY_KEYWORDS[j][2]


\* metadata of chat messages: direct or not or unsaid, mentions absent,
\* empty or present
SlackMetadata ==
    { << >>, [ isDirectMessage |-> TRUE ], [ isDirectMessage |-> FALSE ],
      [ mentions |-> << >> ], [ mentions |-> << "demo-user" >> ],
      [ isDirectMessage |-> TRUE, mentions |-> << >> ],
      [ isDirectMessage |-> TRUE, mentions |-> << "demo-user" >> ],
      [ isDirectMessage |-> FALSE, mentions |-> << >> ],
      [ isDirectMessage |-> FALSE, mentions |-> << "demo-user" >> ] }

\* metadata of the other channels
OtherMetadata ==
    { << >>, [ importance |-> "high" ], [ importance |-> "low" ],
      [ importance |-> "normal" ], [ isForwarded |-> TRUE ], [ isGroupChat |-> TRUE ],
      [ isForwarded |-> TRUE, isGroupChat |-> TRUE ], [ connectionDegree |-> 1 ],
      [ connectionDegree |-> 2 ], [ isInMail |-> TRUE ],
      [ connectionDegree |-> 1, isInMail |-> TRUE ] }

\* C33: for a chat message the provider boost is the sum, clamped to
\* -10..10, of 10 for a direct message, 5 for a mentions list that is not
\* empty, and -5 for a message that is no direct message and has no mention
\* (no mentions list, or an empty one); on every channel and for the
\* metadata of every stored message the provider boost is from -10 to 10.
C33_ChatBoostAndRange ==
    /\ \A metadata \in SlackMetadata :
          LET direct == "isDirectMessage" \in DOMAIN metadata /\ metadata.isDirectMessage
              mentioned == "mentions" \in DOMAIN metadata /\ Len(metadata.mentions) > 0
              sum == (IF direct THEN 10 ELSE 0) + (IF mentioned THEN 5 ELSE 0)
                     + (IF ~direct /\ ~mentioned THEN -5 ELSE 0)
          IN  calculateProviderBoost("slack", metadata)
                 = IF sum > 10 THEN 10 ELSE IF sum < -10 THEN -10 ELSE sum
    /\ \A source \in IngestionRoutes, metadata \in SlackMetadata \cup OtherMetadata :
          calculateProviderBoost(source, metadata) \in -10..10
    /\ \A id \in DOMAIN messages :
          calculateProviderBoost(messages[id].source, messages[id].metadata) \in -10..10


\* C34: after every ingestion answered 201 the contactId of the response is
\* the contactId of the conversation of the response, and the priority of
\* the response is the one calculated with the priority of that
\* conversation's contact.
C34_ResponseContactIsConversationContact ==
    (last.status = 201 /\ last.route \in IngestionRoutes)
       => LET conversation == conversations[last.response.conversationId]
          IN  /\ last.response.contactId = conversation.contactId
              /\ last.response.priority
                    = calculatePriority(
                         [ source |-> last.route,
                           content |-> ContentOf(last.route, last.request),
                           lastMessageAt |-> MessageDate(last.request.receivedAt, now),
                           contactPriority |-> contacts[conversation.contactId].priority,
                           metadata |-> last.request.metadata ], now)


\* C35: in every reachable state and for every request of the four routes,
\* findOrCreateConversation called with the request's user, channel and
\* externalConversationId returns a conversation with that userId, source
\* and externalId, and findOrCreateContact called with the request's user
\* and sender email returns a contact with that userId and the email in
\* lower case.
C35_LookupsReturnWhatWasAsked ==
    \A route \in IngestionRoutes : \A body \in RequestsOf(route) :
        LET found == findOrCreateConversation(TheStore,
                         [ userId |-> body.userId, contactId |-> "uuid-1",
                           externalId |-> body.externalConversationId,
                           source |-> route, title |-> "(No Subject)" ], now)
            conversation == found.store.conversations[found.conversation]
            resolved == findOrCreateContact(TheStore,
                            [ userId |-> body.userId, email |-> SenderEmail(route, body),
                              name |-> body.from.name, source |-> route ], now)
            contact == resolved.store.contacts[resolved.ref]
        IN  /\ conversation.userId = body.userId
            /\ conversation.source = route
            /\ conversation.externalId = body.externalConversationId
            /\ contact.userId = body.userId
            /\ contact.email = toLowerCase(SenderEmail(route, body))


\* C36: after any calls, every stored message's createdAt and every
\* conversation's lastMessageAt is a valid timestamp, and listing the
\* conversations of a user or the messages of a conversation does not end
\* in INTERNAL_ERROR.
C36_StoredDatesAreValid ==
    /\ \A id \in DOMAIN messages : messages[id].createdAt # NaN
    /\ \A id \in DOMAIN conversations : conversations[id].lastMessageAt # NaN
    /\ \A query \in ListQueries : ConversationsGET(TheStore, query, now).status # 500
    /\ \A id \in DOMAIN conversations :
          MessagesGET(TheStore, id, [ page |-> "", limit |-> "" ], now).status # 500

\* C37: no step changes a stored user: every user that was stored is
\* stored after the step with the same email, name and createdAt.
C37_StoredUsersAreKept ==
    [][ \A id \in DOMAIN users :
           /\ id \in DOMAIN users'
           /\ users'[id].email = users[id].email
           /\ users'[id].name = users[id].name
           /\ users'[id].createdAt = users[id].createdAt
      ]_vars


\* C38: every message:new event a stream has written to its observer
\* names in messageId a stored message and in conversationId that
\* message's conversation.
C38_WrittenEventsNameStoredMessages ==
    \A n \in DOMAIN streams :
        IsStream(n) =>
            \A k \in DOMAIN streams[n].received :
                LET event == streams[n].received[k]
                IN  event.type = "message:new"
                       => /\ event.data.messageId \in DOMAIN messages
                          /\ messages[event.data.messageId].conversationId
                                = event.data.conversationId


\* the message stored last in the conversation
LastStoredIn(conversationId) ==
    CHOOSE id \in MessagesOf(TheStore, conversationId) :
        \A other \in MessagesOf(TheStore, conversationId) :
            InsertionOrder(other) <= InsertionOrder(id)

\* C39: calculatePriority is 1 or more for every contact priority from 0 to
\* 100 with every value of the other signals, and for the context of every
\* stored message that is less than 7 days old; so a conversation that
\* stores priority 0 is one whose message stored last was 7 days old or
\* older when it was ingested.
C39_ZeroOnlyWhenLastMessageWasOld ==
    /\ \A score \in ScoresOfAllSignals : score >= 1
    /\ \A id \in DOMAIN messages, c \in { 0, 100 } :
          (IsString(messages[id].content)
           /\ now - messages[id].createdAt < 7 * 24 * 60 * 60 * 1000)
             => calculatePriority(ContextOf(messages[id], c), now) >= 1
    /\ \A id \in DOMAIN conversations :
          (conversations[id].priority = 0 /\ MessagesOf(TheStore, id) # {})
             => LET message == messages[LastStoredIn(id)]
                IN  message.updatedAt - message.createdAt >= 7 * 24 * 60 * 60 * 1000

=============================================================================
